---------------------------- MODULE Spec2Model ----------------------------
(***************************************************************************)
(* Model of the monitoring server's aggregate store (data_structures.rs)   *)
(* and of the manager that feeds it from two channels (manager.rs).        *)
(*                                                                         *)
(* Strings that the code parses or formats (IP addresses, SoC and board    *)
(* identifiers) are sequences of one-character strings, so that            *)
(* Ipv4Addr::from_str and format!("{}.{}.{}.{}") are modelled by what they *)
(* do.  u64 values are four 16-bit limbs, most significant first, so that  *)
(* additions and subtractions keep their 64-bit width.  f64 averages are   *)
(* exact fractions <<numerator, denominator>> in lowest terms; the model's *)
(* usage percentages are small integers, for which the f64 sum is exact    *)
(* and the rounded quotient determines the fraction.                       *)
(***************************************************************************)
EXTENDS Integers, Sequences, FiniteSets, TLC

VARIABLES
    overflow_checks,  \* build profile: TRUE = overflow checks on (dev), FALSE = wrapping (release)
    data_store,       \* DataStore: [nodes, socs, boards]
    clock,            \* the reading of SystemTime::now()
    last_result,      \* result of the most recent store_node_info call
    last_call,        \* the NodeInfo passed to the most recent store_node_info call
    derive_in,        \* identity derivation: the input address
    derive_out,       \* identity derivation: the identifiers derived from derive_in
    list_in,          \* bulk listing: which listing, and what the prefix query returned
    list_out,         \* bulk listing: <<>> or <<the Result the listing returned>>
    node_stream,      \* every NodeInfo sent on the node channel, in arrival order
    node_recvd,       \* how many of them rx_node.recv() has returned
    node_closed,      \* every sender of the node channel is dropped
    rx_node_locked,   \* the Mutex around rx_node is held
    cont_stream,      \* every ContainerList sent on the container channel
    cont_recvd,       \* how many of them rx_container.recv() has returned
    cont_closed,      \* every sender of the container channel is dropped
    rx_cont_locked,   \* the Mutex around rx_container is held
    store_locked,     \* the Mutex around data_store is held
    node_pc,          \* per task: where process_node_info_requests stands
    node_msg,         \* per task: <<>> or <<the NodeInfo it took last>>
    cont_pc,          \* where process_container_requests stands
    reader_pc,        \* a caller of get_data_snapshot / print_all_data
    snapshot,         \* <<>> or <<the store the last snapshot read observed>>
    run_pc,           \* where run() stands
    results,          \* every store_node_info call made: [node_info, result], in order
    msg_locks,        \* per task: store lock acquisitions made for node_msg
    msg_calls         \* per task: store_node_info calls made for node_msg

store_vars == <<overflow_checks, data_store, clock, last_result, last_call>>

derive_vars == <<derive_in, derive_out>>

etcd_vars == <<list_in, list_out>>

node_chan_vars == <<node_stream, node_recvd, node_closed, rx_node_locked>>

cont_vars == <<cont_stream, cont_recvd, cont_closed, rx_cont_locked, cont_pc>>

task_vars == <<node_pc, node_msg, msg_locks, msg_calls>>

reader_vars == <<reader_pc, snapshot>>

mgr_vars == <<node_chan_vars, cont_vars, task_vars, reader_vars,
              store_locked, run_pc, results>>

vars == <<store_vars, derive_vars, etcd_vars, mgr_vars>>

---------------------------------------------------------------------------
(* Text: decimal formatting and IPv4 parsing.                              *)

DigitChars == <<"0", "1", "2", "3", "4", "5", "6", "7", "8", "9">>

IsDigit(c) == \E i \in 1..10 : DigitChars[i] = c

DigitVal(c) == (CHOOSE i \in 1..10 : DigitChars[i] = c) - 1

\* Display for u8 padded with zeros to three digits, as "{:03}" prints it.
FormatU8_padded(n) ==
    <<DigitChars[(n \div 100) + 1], DigitChars[((n \div 10) % 10) + 1],
      DigitChars[(n % 10) + 1]>>

\* Display for u8: decimal, no leading zeros.
FormatU8(n) ==
    IF n >= 100
    THEN <<DigitChars[(n \div 100) + 1], DigitChars[((n \div 10) % 10) + 1],
           DigitChars[(n % 10) + 1]>>
    ELSE IF n >= 10
         THEN <<DigitChars[(n \div 10) + 1], DigitChars[(n % 10) + 1]>>
         ELSE <<DigitChars[n + 1]>>

\* format!("{}.{}.{}.{}", o[0], o[1], o[2], g)
FormatDotted(o) ==
    FormatU8(o[1]) \o <<".">> \o FormatU8(o[2]) \o <<".">> \o
    FormatU8(o[3]) \o <<".">> \o FormatU8(o[4])

RECURSIVE SplitDot(_)
SplitDot(s) ==
    IF \A i \in 1..Len(s) : s[i] # "."
    THEN <<s>>
    ELSE LET i == CHOOSE k \in 1..Len(s) :
                      s[k] = "." /\ \A j \in 1..(k - 1) : s[j] # "."
         IN  <<SubSeq(s, 1, i - 1)>> \o SplitDot(SubSeq(s, i + 1, Len(s)))

RECURSIVE DecimalValue(_)
DecimalValue(p) ==
    IF p = <<>> THEN 0
    ELSE 10 * DecimalValue(SubSeq(p, 1, Len(p) - 1)) + DigitVal(p[Len(p)])

\* One group of an IPv4 address: one to three digits, no zero prefix, at
\* most 255.  -1 when the group does not parse.
ParseOctet(p) ==
    IF \/ Len(p) < 1
       \/ Len(p) > 3
       \/ \E i \in 1..Len(p) : ~IsDigit(p[i])
       \/ (Len(p) > 1 /\ p[1] = "0")
    THEN -1
    ELSE IF DecimalValue(p) > 255 THEN -1 ELSE DecimalValue(p)

\* Ipv4Addr::from_str: exactly four groups separated by dots.
Ipv4Addr_from_str(s) ==
    LET parts == SplitDot(s)
    IN  IF Len(parts) # 4 \/ \E i \in 1..Len(parts) : ParseOctet(parts[i]) = -1
        THEN [ok |-> FALSE, octets |-> <<>>]
        ELSE [ok |-> TRUE, octets |-> [i \in 1..4 |-> ParseOctet(parts[i])]]

---------------------------------------------------------------------------
(* Identity derivation.  A Result<String, String> is [ok, val].            *)

Ok(v) == [ok |-> TRUE, val |-> v]
Err == [ok |-> FALSE, val |-> <<>>]

\* generate_soc_id keeping the remainder of the last octet instead of its
\* tens band.
generate_soc_id_remainder(ip) ==
    LET parsed_ip == Ipv4Addr_from_str(ip)
    IN  IF ~parsed_ip.ok THEN Err
        ELSE LET octets == parsed_ip.octets
             IN  Ok(FormatDotted(<<octets[1], octets[2], octets[3], octets[4] % 10>>))

\* generate_soc_id printing the band padded to three digits.
generate_soc_id_padded(ip) ==
    LET parsed_ip == Ipv4Addr_from_str(ip)
    IN  IF ~parsed_ip.ok THEN Err
        ELSE LET octets == parsed_ip.octets
                 soc_group == (octets[4] \div 10) * 10
             IN  Ok(FormatU8(octets[1]) \o <<".">> \o FormatU8(octets[2]) \o
                    <<".">> \o FormatU8(octets[3]) \o <<".">> \o
                    FormatU8_padded(soc_group))

generate_soc_id(ip) ==
    LET parsed_ip == Ipv4Addr_from_str(ip)
    IN  IF ~parsed_ip.ok THEN Err
        ELSE LET octets == parsed_ip.octets
                 last_octet == octets[4]
                 soc_group == (last_octet \div 10) * 10
             IN  Ok(FormatDotted(<<octets[1], octets[2], octets[3], soc_group>>))

\* generate_board_id grouping by the tens band of the last octet.
generate_board_id_tens(ip) == generate_soc_id(ip)

\* generate_board_id clamping an out-of-range last group instead of
\* rejecting the address.
generate_board_id_lenient(ip) ==
    LET parts == SplitDot(ip)
        parsed_ip == Ipv4Addr_from_str(ip)
    IN  IF parsed_ip.ok
        THEN Ok(FormatDotted(<<parsed_ip.octets[1], parsed_ip.octets[2],
                               parsed_ip.octets[3],
                               (parsed_ip.octets[4] \div 100) * 100>>))
        ELSE IF Len(parts) = 4 /\ Len(parts[4]) = 3 THEN Ok(ip)
        ELSE Err

generate_board_id(ip) ==
    LET parsed_ip == Ipv4Addr_from_str(ip)
    IN  IF ~parsed_ip.ok THEN Err
        ELSE LET octets == parsed_ip.octets
                 last_octet == octets[4]
                 board_group == (last_octet \div 100) * 100
             IN  Ok(FormatDotted(<<octets[1], octets[2], octets[3], board_group>>))

generate_board_id_from_soc_id(soc_id) == generate_board_id(soc_id)

---------------------------------------------------------------------------
(* u64 arithmetic on four 16-bit limbs, most significant limb first.       *)

LimbBase == 2 ^ 16

\* The u64 of a small natural number (below 2^31).
U64(n) == <<0, 0, n \div LimbBase, n % LimbBase>>

\* a + b in 64 bits: the wrapped value and whether the addition overflowed.
Add64(a, b) ==
    LET s4 == a[4] + b[4]
        s3 == a[3] + b[3] + (s4 \div LimbBase)
        s2 == a[2] + b[2] + (s3 \div LimbBase)
        s1 == a[1] + b[1] + (s2 \div LimbBase)
    IN  [val |-> <<s1 % LimbBase, s2 % LimbBase, s3 % LimbBase, s4 % LimbBase>>,
         overflow |-> s1 >= LimbBase]

\* a < b on u64 values.
Lt64(a, b) ==
    \E i \in 1..4 : a[i] < b[i] /\ \A j \in 1..(i - 1) : a[j] = b[j]

\* iter.sum::<u64>(): a left fold of + from 0.  overflow tells whether any
\* addition of the fold overflowed; val is the wrapped result.
RECURSIVE SumU64(_)
SumU64(xs) ==
    IF xs = <<>> THEN [val |-> U64(0), overflow |-> FALSE]
    ELSE LET front == SumU64(SubSeq(xs, 1, Len(xs) - 1))
             s == Add64(front.val, xs[Len(xs)])
         IN  [val |-> s.val, overflow |-> front.overflow \/ s.overflow]

---------------------------------------------------------------------------
(* f64 averages as exact fractions in lowest terms.                        *)

RECURSIVE Gcd(_, _)
Gcd(a, b) == IF b = 0 THEN a ELSE Gcd(b, a % b)

Frac(n, d) == LET g == Gcd(n, d) IN IF g = 0 THEN <<0, 1>> ELSE <<n \div g, d \div g>>

RECURSIVE SumNat(_)
SumNat(xs) == IF xs = <<>> THEN 0 ELSE SumNat(SubSeq(xs, 1, Len(xs) - 1)) + xs[Len(xs)]

\* The sum of the values, not divided by their number.
MeanF64_undivided(xs) == Frac(SumNat(xs), 1)

\* nodes.iter().map(|n| n.f).sum::<f64>() / nodes.len() as f64
MeanF64(xs) == Frac(SumNat(xs), Len(xs))

Column(nodes, f) == [i \in 1..Len(nodes) |-> nodes[i][f]]

---------------------------------------------------------------------------
(* SocInfo and BoardInfo.  An operation that can panic on an arithmetic    *)
(* overflow returns [val, panic]: val is the aggregate as the panic left   *)
(* it.                                                                     *)

\* The summed totals in the order recalculate_totals assigns them, each
\* with the NodeInfo field it sums.
SummedFields ==
    << <<"total_cpu_count", "cpu_count">>,
       <<"total_gpu_count", "gpu_count">>,
       <<"total_used_memory", "used_memory">>,
       <<"total_memory", "total_memory">>,
       <<"total_rx_bytes", "rx_bytes">>,
       <<"total_tx_bytes", "tx_bytes">>,
       <<"total_read_bytes", "read_bytes">>,
       <<"total_write_bytes", "write_bytes">> >>

\* The assignments of the summed totals from the k-th on.  With overflow
\* checks a sum that overflows panics before its assignment.
RECURSIVE AssignSums(_, _)
AssignSums(agg, k) ==
    IF k > Len(SummedFields) THEN [val |-> agg, panic |-> FALSE]
    ELSE LET s == SumU64(Column(agg.nodes, SummedFields[k][2]))
         IN  IF s.overflow /\ overflow_checks
             THEN [val |-> agg, panic |-> TRUE]
             ELSE AssignSums([agg EXCEPT ![SummedFields[k][1]] = s.val], k + 1)

\* The averaged fields, then the summed ones.
RecalculateTotals(agg) ==
    LET averaged ==
            IF Len(agg.nodes) > 0
            THEN [agg EXCEPT !.total_cpu_usage = MeanF64(Column(agg.nodes, "cpu_usage")),
                             !.total_mem_usage = MeanF64(Column(agg.nodes, "mem_usage"))]
            ELSE [agg EXCEPT !.total_cpu_usage = <<0, 1>>,
                             !.total_mem_usage = <<0, 1>>]
    IN  AssignSums(averaged, 1)

SocInfo_recalculate_totals(soc) == RecalculateTotals(soc)

BoardInfo_recalculate_totals(board) == RecalculateTotals(board)

\* Replace the member of the same name, or push.
\* A member list that takes every record as a new member.
UpsertMember_push(nodes, node_info) == Append(nodes, node_info)

\* A member list that keeps the record it has of a name.
UpsertMember_keep(nodes, node_info) ==
    IF \E i \in 1..Len(nodes) : nodes[i].node_name = node_info.node_name
    THEN nodes
    ELSE Append(nodes, node_info)

\* The member of the same name is replaced in place, or the record pushed.
UpsertMember(nodes, node_info) ==
    IF \E i \in 1..Len(nodes) : nodes[i].node_name = node_info.node_name
    THEN LET i == CHOOSE k \in 1..Len(nodes) :
                      /\ nodes[k].node_name = node_info.node_name
                      /\ \A j \in 1..(k - 1) : nodes[j].node_name # node_info.node_name
         IN  [nodes EXCEPT ![i] = node_info]
    ELSE Append(nodes, node_info)

SocInfo_update_with_node(soc, node_info) ==
    SocInfo_recalculate_totals([soc EXCEPT !.nodes = UpsertMember(soc.nodes, node_info)])

BoardInfo_update_with_node(board, node_info) ==
    BoardInfo_recalculate_totals([board EXCEPT !.nodes = UpsertMember(board.nodes, node_info)])

SocInfo_new(soc_id, node_info, now) ==
    SocInfo_recalculate_totals(
        [soc_id |-> soc_id,
         nodes |-> <<node_info>>,
         total_cpu_usage |-> <<node_info.cpu_usage, 1>>,
         total_cpu_count |-> node_info.cpu_count,
         total_gpu_count |-> node_info.gpu_count,
         total_used_memory |-> node_info.used_memory,
         total_memory |-> node_info.total_memory,
         total_mem_usage |-> <<node_info.mem_usage, 1>>,
         total_rx_bytes |-> node_info.rx_bytes,
         total_tx_bytes |-> node_info.tx_bytes,
         total_read_bytes |-> node_info.read_bytes,
         total_write_bytes |-> node_info.write_bytes,
         last_updated |-> now])

BoardInfo_new(board_id, node_info, now) ==
    BoardInfo_recalculate_totals(
        [board_id |-> board_id,
         nodes |-> <<node_info>>,
         socs |-> <<>>,
         total_cpu_usage |-> <<node_info.cpu_usage, 1>>,
         total_cpu_count |-> node_info.cpu_count,
         total_gpu_count |-> node_info.gpu_count,
         total_used_memory |-> node_info.used_memory,
         total_memory |-> node_info.total_memory,
         total_mem_usage |-> <<node_info.mem_usage, 1>>,
         total_rx_bytes |-> node_info.rx_bytes,
         total_tx_bytes |-> node_info.tx_bytes,
         total_read_bytes |-> node_info.read_bytes,
         total_write_bytes |-> node_info.write_bytes,
         last_updated |-> now])

---------------------------------------------------------------------------
(* DataStore.  A HashMap is a function on its key set.                     *)

EmptyMap == [k \in {} |-> 0]

MapInsert(m, key, v) == [k \in (DOMAIN m) \cup {key} |-> IF k = key THEN v ELSE m[k]]

DataStore_new == [nodes |-> EmptyMap, socs |-> EmptyMap, boards |-> EmptyMap]

\* The orders in which a HashMap of the given keys may be iterated.
IterationOrders(keys) ==
    {o \in [1..Cardinality(keys) -> keys] :
        \A i, j \in 1..Cardinality(keys) : i # j => o[i] # o[j]}

\* update_board_socs pushing only the SoCs the board does not list yet,
\* instead of rebuilding the list.
update_board_socs_append(ds, board_id, order) ==
    LET belongs(soc_id) ==
            LET soc_board_id == generate_board_id_from_soc_id(ds.socs[soc_id].soc_id)
            IN  IF soc_board_id.ok THEN soc_board_id.val = board_id ELSE FALSE
        listed(soc_id) ==
            \E i \in 1..Len(ds.boards[board_id].socs) :
                ds.boards[board_id].socs[i].soc_id = soc_id
        fresh == SelectSeq(order, LAMBDA k : belongs(k) /\ ~listed(k))
    IN  IF board_id \in DOMAIN ds.boards
        THEN [ds EXCEPT !.boards[board_id].socs =
                  @ \o [i \in 1..Len(fresh) |-> ds.socs[fresh[i]]]]
        ELSE ds

\* order: the order in which self.socs.values() yields the SoCs.
update_board_socs(ds, board_id, order) ==
    LET belongs(soc_id) ==
            LET soc_board_id == generate_board_id_from_soc_id(ds.socs[soc_id].soc_id)
            IN  IF soc_board_id.ok THEN soc_board_id.val = board_id ELSE FALSE
        kept == SelectSeq(order, belongs)
        board_socs == [i \in 1..Len(kept) |-> ds.socs[kept[i]]]
    IN  IF board_id \in DOMAIN ds.boards
        THEN [ds EXCEPT !.boards[board_id].socs = board_socs]
        ELSE ds

\* update_soc_info creating a fresh SocInfo whether or not one exists.
update_soc_info_overwrite(ds, soc_id, node_info, now) ==
    LET r == SocInfo_new(soc_id, node_info, now)
    IN  IF r.panic
        THEN [val |-> ds, panic |-> TRUE]
        ELSE [val |-> [ds EXCEPT !.socs = MapInsert(ds.socs, soc_id, r.val)],
              panic |-> FALSE]

\* update_soc_info leaving the timestamp of a SoC it updates as it was.
update_soc_info_stale(ds, soc_id, node_info, now) ==
    IF soc_id \in DOMAIN ds.socs
    THEN LET r == SocInfo_update_with_node(ds.socs[soc_id], node_info)
         IN  [val |-> [ds EXCEPT !.socs[soc_id] = r.val], panic |-> r.panic]
    ELSE LET r == SocInfo_new(soc_id, node_info, now)
         IN  IF r.panic
             THEN [val |-> ds, panic |-> TRUE]
             ELSE [val |-> [ds EXCEPT !.socs = MapInsert(ds.socs, soc_id, r.val)],
                   panic |-> FALSE]

update_soc_info(ds, soc_id, node_info, now) ==
    IF soc_id \in DOMAIN ds.socs
    THEN LET r == SocInfo_update_with_node(ds.socs[soc_id], node_info)
         IN  IF r.panic
             THEN [val |-> [ds EXCEPT !.socs[soc_id] = r.val], panic |-> TRUE]
             ELSE [val |-> [ds EXCEPT !.socs[soc_id] =
                                [r.val EXCEPT !.last_updated = now]],
                   panic |-> FALSE]
    ELSE LET r == SocInfo_new(soc_id, node_info, now)
         IN  IF r.panic
             THEN [val |-> ds, panic |-> TRUE]
             ELSE [val |-> [ds EXCEPT !.socs = MapInsert(ds.socs, soc_id, r.val)],
                   panic |-> FALSE]

\* update_board_info refreshing the SoC list only of a board it creates.
update_board_info_unlisted(ds, board_id, node_info, now, order) ==
    IF board_id \in DOMAIN ds.boards
    THEN LET r == BoardInfo_update_with_node(ds.boards[board_id], node_info)
         IN  [val |-> [ds EXCEPT !.boards[board_id] =
                           IF r.panic THEN r.val
                           ELSE [r.val EXCEPT !.last_updated = now]],
              panic |-> r.panic]
    ELSE LET r == BoardInfo_new(board_id, node_info, now)
         IN  IF r.panic
             THEN [val |-> ds, panic |-> TRUE]
             ELSE [val |-> update_board_socs(
                               [ds EXCEPT !.boards = MapInsert(ds.boards, board_id, r.val)],
                               board_id, order),
                   panic |-> FALSE]

update_board_info(ds, board_id, node_info, now, order) ==
    LET updated ==
            IF board_id \in DOMAIN ds.boards
            THEN LET r == BoardInfo_update_with_node(ds.boards[board_id], node_info)
                 IN  IF r.panic
                     THEN [val |-> [ds EXCEPT !.boards[board_id] = r.val],
                           panic |-> TRUE]
                     ELSE [val |-> [ds EXCEPT !.boards[board_id] =
                                        [r.val EXCEPT !.last_updated = now]],
                           panic |-> FALSE]
            ELSE LET r == BoardInfo_new(board_id, node_info, now)
                 IN  IF r.panic
                     THEN [val |-> ds, panic |-> TRUE]
                     ELSE [val |-> [ds EXCEPT !.boards =
                                        MapInsert(ds.boards, board_id, r.val)],
                           panic |-> FALSE]
    IN  IF updated.panic THEN updated
        ELSE [val |-> update_board_socs(updated.val, board_id, order),
              panic |-> FALSE]

\* The address check at the head of store_node_info.
ValidateIp(node_info) == Ipv4Addr_from_str(node_info.ip).ok

InsertNode(ds, node_info) ==
    [ds EXCEPT !.nodes = MapInsert(ds.nodes, node_info.node_name, node_info)]

\* self.nodes.get(node_name): an Option, <<>> or <<the record>>.
get_node_info(ds, node_name) ==
    IF node_name \in DOMAIN ds.nodes THEN <<ds.nodes[node_name]>> ELSE <<>>

\* store_node_info returns Err: the address, or an identifier derived from
\* it, does not parse.
StoreRejects(node_info) ==
    \/ ~ValidateIp(node_info)
    \/ ~generate_soc_id(node_info.ip).ok
    \/ ~generate_board_id(node_info.ip).ok

\* store_node_info past its checks, stamping every SoC of the store with
\* the time of the call.
StoreValidated_restamp(ds, node_info, soc_id, board_id, now, order) ==
    LET inserted == InsertNode(ds, node_info)
        soc_done == update_soc_info(inserted, soc_id, node_info, now)
        stamped == [soc_done.val EXCEPT !.socs =
                        [s \in DOMAIN @ |-> [@[s] EXCEPT !.last_updated = now]]]
    IN  IF soc_done.panic
        THEN [val |-> soc_done.val, result |-> "panic"]
        ELSE LET board_done ==
                     update_board_info(stamped, board_id, node_info, now, order)
             IN  [val |-> board_done.val,
                  result |-> IF board_done.panic THEN "panic" ELSE "ok"]

\* store_node_info past its checks: the node, its SoC, its board.  result
\* is "ok", or "panic" when an overflow check failed; val is then the store
\* as the panic left it.
StoreValidated(ds, node_info, soc_id, board_id, now, order) ==
    LET inserted == InsertNode(ds, node_info)
        soc_done == update_soc_info(inserted, soc_id, node_info, now)
    IN  IF soc_done.panic
        THEN [val |-> soc_done.val, result |-> "panic"]
        ELSE LET board_done ==
                     update_board_info(soc_done.val, board_id, node_info, now, order)
             IN  [val |-> board_done.val,
                  result |-> IF board_done.panic THEN "panic" ELSE "ok"]

\* store_node_info writing the node before it validates the address.
store_node_info_insert_first(ds, node_info, now, order) ==
    LET soc_id == generate_soc_id(node_info.ip)
        board_id == generate_board_id(node_info.ip)
    IN  IF ~ValidateIp(node_info) \/ ~soc_id.ok \/ ~board_id.ok
        THEN [val |-> InsertNode(ds, node_info), result |-> "err"]
        ELSE StoreValidated(ds, node_info, soc_id.val, board_id.val, now, order)

\* result is "err" when Err is returned, before anything is written.
store_node_info(ds, node_info, now, order) ==
    LET soc_id == generate_soc_id(node_info.ip)
        board_id == generate_board_id(node_info.ip)
    IN  IF StoreRejects(node_info)
        THEN [val |-> ds, result |-> "err"]
        ELSE StoreValidated(ds, node_info, soc_id.val, board_id.val, now, order)

\* The SoC keys self.socs holds when update_board_socs iterates it.
SocKeysAfter(ds, node_info) ==
    IF generate_soc_id(node_info.ip).ok
    THEN (DOMAIN ds.socs) \cup {generate_soc_id(node_info.ip).val}
    ELSE DOMAIN ds.socs

---------------------------------------------------------------------------
(* Inputs.                                                                 *)

NodeInfo(name, ip, m) ==
    [node_name |-> name, ip |-> ip,
     cpu_usage |-> m.cpu_usage, cpu_count |-> m.cpu_count,
     gpu_count |-> m.gpu_count, used_memory |-> m.used_memory,
     total_memory |-> m.total_memory, mem_usage |-> m.mem_usage,
     rx_bytes |-> m.rx_bytes, tx_bytes |-> m.tx_bytes,
     read_bytes |-> m.read_bytes, write_bytes |-> m.write_bytes,
     os |-> "linux", arch |-> "x86_64"]

Ip201 == <<"1", "0", ".", "0", ".", "0", ".", "2", "0", "1">>
Ip205 == <<"1", "0", ".", "0", ".", "0", ".", "2", "0", "5">>
Ip215 == <<"1", "0", ".", "0", ".", "0", ".", "2", "1", "5">>
Ip101 == <<"1", "0", ".", "0", ".", "0", ".", "1", "0", "1">>
IpBad == <<"9", "9", "9", ".", "1", ".", "1", ".", "1">>
Ip202 == <<"1", "0", ".", "0", ".", "0", ".", "2", "0", "2">>
Ip211 == <<"1", "0", ".", "0", ".", "0", ".", "2", "1", "1">>
Ip122 == <<"1", "0", ".", "0", ".", "0", ".", "1", "2", "2">>
Ip322 == <<"1", "0", ".", "0", ".", "0", ".", "3", "2", "2">>

Two63 == <<2 ^ 15, 0, 0, 0>>
MaxU64 == <<LimbBase - 1, LimbBase - 1, LimbBase - 1, LimbBase - 1>>

MetricsA ==
    [cpu_usage |-> 50, mem_usage |-> 40, cpu_count |-> U64(4), gpu_count |-> U64(1),
     used_memory |-> U64(40), total_memory |-> U64(100),
     rx_bytes |-> U64(10), tx_bytes |-> U64(20),
     read_bytes |-> U64(5), write_bytes |-> U64(6)]

MetricsB ==
    [cpu_usage |-> 70, mem_usage |-> 60, cpu_count |-> U64(8), gpu_count |-> U64(0),
     used_memory |-> U64(60), total_memory |-> U64(100),
     rx_bytes |-> U64(1), tx_bytes |-> U64(2),
     read_bytes |-> U64(3), write_bytes |-> U64(4)]

\* The third sample of the worked scenario.
MetricsC ==
    [cpu_usage |-> 10, mem_usage |-> 10, cpu_count |-> U64(2), gpu_count |-> U64(0),
     used_memory |-> U64(10), total_memory |-> U64(100),
     rx_bytes |-> U64(7), tx_bytes |-> U64(8),
     read_bytes |-> U64(9), write_bytes |-> U64(1)]

\* A core count of 2^63: two such members overflow the SoC's sum.
MetricsWide == [MetricsA EXCEPT !.cpu_count = Two63]

\* The records passed to store_node_info.
StoreInputs ==
    {NodeInfo("n1", ip, MetricsA) : ip \in {Ip201, Ip205, Ip215, Ip101, IpBad}}
    \cup {NodeInfo("n2", ip, MetricsB) : ip \in {Ip201, Ip205, Ip215, Ip101, IpBad}}
    \cup {NodeInfo("n1", Ip201, MetricsB),
          NodeInfo("n1", Ip201, MetricsWide), NodeInfo("n2", Ip205, MetricsWide)}

\* The number of store_node_info calls of a run.
MaxCalls == 3

\* The addresses given to the identity derivation: every last octet under
\* two prefixes, a few last octets under prefixes that differ from the first
\* in one octet only, and strings that are no IPv4 address.
DeriveInputs ==
    {FormatDotted(<<10, 0, 0, d>>) : d \in 0..255}
    \cup {FormatDotted(<<192, 168, 255, d>>) : d \in 0..255}
    \cup {FormatDotted(<<10, 0, 1, d>>) : d \in {201, 202, 211}}
    \cup {FormatDotted(<<10, 1, 0, d>>) : d \in {201, 202, 211}}
    \cup {FormatDotted(<<11, 0, 0, d>>) : d \in {201, 202, 211}}
    \cup {IpBad, Ip322, <<>>, <<"1", "0", ".", "0", ".", "0">>,
          <<"1", "0", ".", "0", ".", "0", ".", "0", "1">>,
          <<"1", "0", ".", "0", ".", "0", ".", "2", "5", "6">>,
          <<"1", "0", ".", "0", ".", "0", ".", "1", ".", "1">>,
          <<"1", "0", ".", ".", "0", ".", "1">>,
          <<"a", ".", "b", ".", "c", ".", "d">>}

---------------------------------------------------------------------------
(* etcd_storage.rs: the bulk listings.  A stored value is a text:          *)
(* [syntax_ok, root], the flag telling whether the text is JSON at all,    *)
(* root its value.  A value is [name, kind, s, n, d, items]: name is the   *)
(* member name when the value is a member of an object ("" otherwise),     *)
(* kind the JSON token: "string" (s is the string), "uint" (n is the       *)
(* integer, between 0 and 2^31 - 1), "int" (n is the negative integer),    *)
(* "huge" (an integer above u64::MAX, n its excess), "float" (a number     *)
(* written with a fraction, n / d), "array" (items are the elements),      *)
(* "object" (items are the members in the order of the text) or "null".    *)

\* The fields of the structs, in declaration order, with their types.
TotalsFields ==
    << <<"total_cpu_usage", "f64">>, <<"total_cpu_count", "u64">>,
       <<"total_gpu_count", "u64">>, <<"total_used_memory", "u64">>,
       <<"total_memory", "u64">>, <<"total_mem_usage", "f64">>,
       <<"total_rx_bytes", "u64">>, <<"total_tx_bytes", "u64">>,
       <<"total_read_bytes", "u64">>, <<"total_write_bytes", "u64">>,
       <<"last_updated", "SystemTime">> >>

StructFields(ty) ==
    CASE ty = "SerializableNodeInfo" ->
           << <<"node_name", "String">>, <<"ip", "String">>,
              <<"cpu_usage", "f64">>, <<"cpu_count", "u64">>,
              <<"gpu_count", "u64">>, <<"used_memory", "u64">>,
              <<"total_memory", "u64">>, <<"mem_usage", "f64">>,
              <<"rx_bytes", "u64">>, <<"tx_bytes", "u64">>,
              <<"read_bytes", "u64">>, <<"write_bytes", "u64">>,
              <<"os", "String">>, <<"arch", "String">> >>
      [] ty = "SocInfo" ->
           << <<"soc_id", "String">>, <<"nodes", "Vec<NodeInfo>">> >> \o TotalsFields
      [] ty = "BoardInfo" ->
           << <<"board_id", "String">>, <<"nodes", "Vec<NodeInfo>">>,
              <<"socs", "Vec<SocInfo>">> >> \o TotalsFields
      [] ty = "SystemTime" ->
           << <<"secs_since_epoch", "u64">>, <<"nanos_since_epoch", "u32">> >>

\* The element type of a Vec field.  A NodeInfo element has the fields of
\* SerializableNodeInfo.
ElementType(ty) == IF ty = "Vec<SocInfo>" THEN "SocInfo" ELSE "SerializableNodeInfo"

\* The members of a text that carry a given name.
MembersNamed(members, name) == SelectSeq(members, LAMBDA m : m.name = name)

\* The struct types: serde reads each from a JSON object (visit_map) or
\* from a JSON array of the field values in declaration order (visit_seq).
StructTypes == {"SerializableNodeInfo", "SocInfo", "BoardInfo", "SystemTime"}

\* The derived Deserialize skips members of unknown names; the one for
\* SystemTime rejects them.
RejectsUnknownFields(ty) == ty = "SystemTime"

\* The SystemTime of a duration since the epoch read as secs and nanos:
\* an error when secs + nanos / 10^9 overflows a u64 or the time does not
\* fit the platform's i64 seconds.
SystemTime_from(read) ==
    IF ~read.ok THEN Err
    ELSE LET secs == Add64(read.val.secs_since_epoch,
                           U64(read.val.nanos_since_epoch \div 1000000000))
         IN  IF secs.overflow \/ ~Lt64(secs.val, Two63) THEN Err
             ELSE Ok([secs_since_epoch |-> secs.val,
                      nanos_since_epoch |->
                          read.val.nanos_since_epoch % 1000000000])

RECURSIVE DeserializeStruct(_, _)
RECURSIVE DeserializeSeq(_, _)
RECURSIVE DeserializeField(_, _)
\* Deserialize of one value into a field of type ty.
DeserializeField(ty, m) ==
    CASE ty = "String" -> IF m.kind = "string" THEN Ok(m.s) ELSE Err
      [] ty = "u64" -> IF m.kind = "uint" THEN Ok(U64(m.n)) ELSE Err
      [] ty = "u32" -> IF m.kind = "uint" THEN Ok(m.n) ELSE Err
      [] ty = "f64" ->
           IF m.kind \in {"uint", "int"} THEN Ok(<<m.n, 1>>)
           ELSE IF m.kind = "huge" THEN Ok(<<"u64::MAX +", m.n>>)
           ELSE IF m.kind = "float" THEN Ok(Frac(m.n, m.d))
           ELSE Err
      [] ty \in {"Vec<NodeInfo>", "Vec<SocInfo>"} ->
           IF m.kind # "array" THEN Err
           ELSE LET elems == [i \in 1..Len(m.items) |->
                                 DeserializeField(ElementType(ty), m.items[i])]
                IN  IF \E i \in 1..Len(elems) : ~elems[i].ok THEN Err
                    ELSE Ok([i \in 1..Len(elems) |-> elems[i].val])
      [] ty \in StructTypes ->
           LET read == IF m.kind = "object" THEN DeserializeStruct(ty, m.items)
                       ELSE IF m.kind = "array" THEN DeserializeSeq(ty, m.items)
                       ELSE Err
           IN  IF ty = "SystemTime" THEN SystemTime_from(read) ELSE read

\* visit_map: every field exactly once and of its type; a member of
\* another name is skipped, or rejected by a type that knows its fields
\* only.
DeserializeStruct(ty, members) ==
    LET fields == StructFields(ty)
        names == {fields[k][1] : k \in 1..Len(fields)}
        TypeOf(name) == fields[CHOOSE k \in 1..Len(fields) : fields[k][1] = name][2]
        read == [name \in names |->
                    LET found == MembersNamed(members, name)
                    IN  IF Len(found) # 1 THEN Err
                        ELSE DeserializeField(TypeOf(name), found[1])]
    IN  IF \/ \E name \in names : ~read[name].ok
           \/ /\ RejectsUnknownFields(ty)
              /\ \E i \in 1..Len(members) : members[i].name \notin names
        THEN Err
        ELSE Ok([name \in names |-> read[name].val])

\* visit_seq: the elements are the fields in declaration order; a shorter
\* array is an invalid length, and serde_json rejects elements left over.
DeserializeSeq(ty, elems) ==
    LET fields == StructFields(ty)
        names == {fields[k][1] : k \in 1..Len(fields)}
        IndexOf(name) == CHOOSE k \in 1..Len(fields) : fields[k][1] = name
        read == [k \in 1..Len(fields) |->
                    IF k > Len(elems) THEN Err
                    ELSE DeserializeField(fields[k][2], elems[k])]
    IN  IF Len(elems) # Len(fields) \/ \E k \in 1..Len(fields) : ~read[k].ok
        THEN Err
        ELSE Ok([name \in names |-> read[IndexOf(name)].val])

\* serde_json::from_str::<ty>(&kv.value)
serde_json_from_str(ty, value) ==
    IF ~value.syntax_ok THEN Err ELSE DeserializeField(ty, value.root)

\* impl From<SerializableNodeInfo> for NodeInfo: field by field.
NodeInfo_from(serializable) ==
    [node_name |-> serializable.node_name, ip |-> serializable.ip,
     cpu_usage |-> serializable.cpu_usage, cpu_count |-> serializable.cpu_count,
     gpu_count |-> serializable.gpu_count, used_memory |-> serializable.used_memory,
     total_memory |-> serializable.total_memory, mem_usage |-> serializable.mem_usage,
     rx_bytes |-> serializable.rx_bytes, tx_bytes |-> serializable.tx_bytes,
     read_bytes |-> serializable.read_bytes, write_bytes |-> serializable.write_bytes,
     os |-> serializable.os, arch |-> serializable.arch]

\* A listing loop that leaves at the first value that does not deserialize.
RECURSIVE CollectItems_break(_, _)
CollectItems_break(ty, kv_pairs) ==
    IF kv_pairs = <<>> THEN <<>>
    ELSE LET r == serde_json_from_str(ty, Head(kv_pairs).value)
         IN  IF r.ok THEN <<r.val>> \o CollectItems_break(ty, Tail(kv_pairs))
             ELSE <<>>

\* for kv in kv_pairs { match from_str(&kv.value) { Ok(v) => push(v),
\* Err(e) => eprintln!(..) } }: the vector after the loop.
RECURSIVE CollectItems(_, _)
CollectItems(ty, kv_pairs) ==
    IF kv_pairs = <<>> THEN <<>>
    ELSE LET front == CollectItems(ty, SubSeq(kv_pairs, 1, Len(kv_pairs) - 1))
             r == serde_json_from_str(ty, kv_pairs[Len(kv_pairs)].value)
         IN  IF r.ok THEN Append(front, r.val) ELSE front

\* The listings.  prefix_result is what get_all_with_prefix returned:
\* [ok, kv_pairs]; its error is passed on by the ? operator.
get_all_nodes(prefix_result) ==
    IF ~prefix_result.ok THEN Err
    ELSE LET nodes == CollectItems("SerializableNodeInfo", prefix_result.kv_pairs)
         IN  Ok([i \in 1..Len(nodes) |-> NodeInfo_from(nodes[i])])

get_all_socs(prefix_result) ==
    IF ~prefix_result.ok THEN Err
    ELSE Ok(CollectItems("SocInfo", prefix_result.kv_pairs))

get_all_boards(prefix_result) ==
    IF ~prefix_result.ok THEN Err
    ELSE Ok(CollectItems("BoardInfo", prefix_result.kv_pairs))

(* Stored values. *)

JToken(name, kind, s, n, d, items) ==
    [name |-> name, kind |-> kind, s |-> s, n |-> n, d |-> d, items |-> items]

JStr(name, v) == JToken(name, "string", v, 0, 1, <<>>)
JNum(name, n) == JToken(name, IF n < 0 THEN "int" ELSE "uint", "", n, 1, <<>>)
JHuge(name, n) == JToken(name, "huge", "", n, 1, <<>>)
JFloat(name, n, d) == JToken(name, "float", "", n, d, <<>>)
JArray(name, elems) == JToken(name, "array", "", 0, 1, elems)
JObject(name, members) == JToken(name, "object", "", 0, 1, members)
JNull(name) == JToken(name, "null", "", 0, 1, <<>>)

\* The text of a JSON object, and the text of a JSON array.
JsonText(members) == [syntax_ok |-> TRUE, root |-> JObject("", members)]

JsonArrayText(elems) == [syntax_ok |-> TRUE, root |-> JArray("", elems)]

\* The values of a member list, without their names: the elements of the
\* array form of a struct.
Unnamed(members) == [i \in 1..Len(members) |-> [members[i] EXCEPT !.name = ""]]

\* The objects of an array of structs.
Objects(member_lists) ==
    [i \in 1..Len(member_lists) |-> JObject("", member_lists[i])]

\* A member list without the members of one name.
Without(members, name) == SelectSeq(members, LAMBDA m : m.name # name)

\* The JSON object serde_json::to_string writes for a SerializableNodeInfo;
\* an f64 is written with a fraction (40.0).
NodeMembers(name, ip) ==
    << JStr("node_name", name), JStr("ip", ip),
       JFloat("cpu_usage", 101, 2), JNum("cpu_count", 4),
       JNum("gpu_count", 1), JNum("used_memory", 40),
       JNum("total_memory", 100), JFloat("mem_usage", 40, 1),
       JNum("rx_bytes", 10), JNum("tx_bytes", 20),
       JNum("read_bytes", 5), JNum("write_bytes", 6),
       JStr("os", "linux"), JStr("arch", "x86_64") >>

TotalsMembers ==
    << JFloat("total_cpu_usage", 101, 2), JNum("total_cpu_count", 4),
       JNum("total_gpu_count", 1), JNum("total_used_memory", 40),
       JNum("total_memory", 100), JFloat("total_mem_usage", 40, 1),
       JNum("total_rx_bytes", 10), JNum("total_tx_bytes", 20),
       JNum("total_read_bytes", 5), JNum("total_write_bytes", 6),
       JObject("last_updated", << JNum("secs_since_epoch", 1700000000),
                                  JNum("nanos_since_epoch", 0) >>) >>

SocMembers(soc_id, nodes) ==
    << JStr("soc_id", soc_id), JArray("nodes", Objects(nodes)) >> \o TotalsMembers

BoardMembers(board_id, nodes, socs) ==
    << JStr("board_id", board_id), JArray("nodes", Objects(nodes)),
       JArray("socs", Objects(socs)) >>
    \o TotalsMembers

\* A text that is no JSON.
Garbage == [syntax_ok |-> FALSE, root |-> JNull("")]

\* What monitoring/nodes/ can hold: three well-formed nodes, one of them
\* with a member the struct does not have and one written as the array of
\* its field values, and values that do not deserialize: a missing field,
\* a field twice, a string where a u64 is expected, a negative u64, and a
\* text that is no JSON.
StoredNodes ==
    {JsonText(NodeMembers("n1", "10.0.0.201")),
     JsonArrayText(Unnamed(NodeMembers("n3", "10.0.0.215"))),
     JsonText(NodeMembers("n2", "10.0.0.205") \o <<JStr("comment", "x")>>),
     JsonText(Without(NodeMembers("n1", "10.0.0.201"), "ip")),
     JsonText(NodeMembers("n1", "10.0.0.201") \o <<JStr("ip", "10.0.0.202")>>),
     JsonText([NodeMembers("n1", "10.0.0.201") EXCEPT ![4] = JStr("cpu_count", "4")]),
     JsonText([NodeMembers("n1", "10.0.0.201") EXCEPT ![5] = JNum("gpu_count", -1)]),
     Garbage}

\* What monitoring/socs/ can hold: three well-formed SoCs, one of them with
\* its timestamp written as [secs, nanos], and values that do not
\* deserialize: a member node without its address, a null timestamp, a
\* timestamp with a member it does not have, and a text that is no JSON.
StoredSocs ==
    {JsonText(SocMembers("10.0.0.200", <<NodeMembers("n1", "10.0.0.201")>>)),
     JsonText(SocMembers("10.0.0.210", <<>>)),
     JsonText(Without(SocMembers("10.0.0.220", <<>>), "last_updated")
              \o <<JArray("last_updated", <<JNum("", 1700000000),
                                            JNum("", 1500000000)>>)>>),
     JsonText(Without(SocMembers("10.0.0.200", <<>>), "last_updated")
              \o <<JObject("last_updated",
                           <<JNum("secs_since_epoch", 1700000000),
                             JNum("nanos_since_epoch", 0), JNum("x", 1)>>)>>),
     JsonText(SocMembers("10.0.0.200",
                         <<Without(NodeMembers("n1", "10.0.0.201"), "ip")>>)),
     JsonText(Without(SocMembers("10.0.0.200", <<>>), "last_updated")
              \o <<JNull("last_updated")>>),
     Garbage}

\* What monitoring/boards/ can hold: two well-formed boards, and values that
\* do not deserialize: a listed SoC without its identifier, a node count too
\* large for a u64, and a text that is no JSON.
StoredBoards ==
    {JsonText(BoardMembers("10.0.0.200", <<NodeMembers("n1", "10.0.0.201")>>,
                           <<SocMembers("10.0.0.200", <<>>)>>)),
     JsonText(BoardMembers("10.0.0.100", <<>>, <<>>)),
     JsonText(BoardMembers("10.0.0.200", <<>>,
                           <<Without(SocMembers("10.0.0.200", <<>>), "soc_id")>>)),
     JsonText([BoardMembers("10.0.0.200", <<>>, <<>>) EXCEPT
                   ![5] = JHuge("total_cpu_count", 1)]),
     Garbage}

\* The key prefixes of the three listings.
Listings == {"monitoring/nodes/", "monitoring/socs/", "monitoring/boards/"}

StoredUnder(prefix) ==
    CASE prefix = "monitoring/nodes/" -> StoredNodes
      [] prefix = "monitoring/socs/" -> StoredSocs
      [] prefix = "monitoring/boards/" -> StoredBoards

\* The number of keys under a prefix.
MaxItems == 3

\* What get_all_with_prefix can return: an error, or the key-value pairs
\* under the prefix in key order.
PrefixResults(prefix) ==
    {[ok |-> FALSE, kv_pairs |-> <<>>]}
    \cup UNION {{[ok |-> TRUE,
                   kv_pairs |-> [i \in 1..n |-> [key |-> i, value |-> values[i]]]] :
                      values \in [1..n -> StoredUnder(prefix)]} : n \in 0..MaxItems}

\* No listing is made.
NoListing == list_in = <<>> /\ list_out = <<>>

---------------------------------------------------------------------------
(* The store driven directly: a sequence of store_node_info calls.         *)

NoDerive == [done |-> FALSE, soc |-> Err, board |-> Err, board_of_soc |-> Err]

\* The tasks that can run process_node_info_requests on one manager.
NodeTasks == {"t1", "t2"}

\* The manager's variables where no manager runs.
NoManager ==
    /\ node_stream = <<>> /\ node_recvd = 0 /\ node_closed = FALSE
    /\ rx_node_locked = FALSE
    /\ cont_stream = <<>> /\ cont_recvd = 0 /\ cont_closed = FALSE
    /\ rx_cont_locked = FALSE
    /\ store_locked = FALSE
    /\ node_pc = [t \in NodeTasks |-> "idle"]
    /\ node_msg = [t \in NodeTasks |-> <<>>]
    /\ cont_pc = "idle"
    /\ reader_pc = "idle" /\ snapshot = <<>> /\ run_pc = "idle"
    /\ results = <<>>
    /\ msg_locks = [t \in NodeTasks |-> 0]
    /\ msg_calls = [t \in NodeTasks |-> 0]

InitStore ==
    /\ NoManager
    /\ overflow_checks \in BOOLEAN
    /\ data_store = DataStore_new
    /\ clock = 0
    /\ last_result = "none"
    /\ last_call = <<>>
    /\ derive_in = <<>>
    /\ derive_out = NoDerive
    /\ NoListing

\* One whole store_node_info call.  A panic ends the caller.
StoreNodeInfo ==
    /\ clock < MaxCalls
    /\ last_result # "panic"
    /\ \E node_info \in StoreInputs :
         \E order \in IterationOrders(SocKeysAfter(data_store, node_info)) :
            LET r == store_node_info(data_store, node_info, clock, order)
            IN  /\ data_store' = r.val
                /\ last_result' = r.result
                /\ last_call' = <<node_info>>
    /\ clock' = clock + 1
    /\ UNCHANGED <<overflow_checks, derive_vars, etcd_vars, mgr_vars>>

NextStore == StoreNodeInfo

SpecStore == InitStore /\ [][NextStore]_vars

---------------------------------------------------------------------------
(* The identity derivation applied to one address.                         *)

InitDerive ==
    /\ NoManager
    /\ overflow_checks = FALSE
    /\ data_store = DataStore_new
    /\ clock = 0
    /\ last_result = "none"
    /\ last_call = <<>>
    /\ derive_in \in DeriveInputs
    /\ derive_out = NoDerive
    /\ NoListing

Derive ==
    /\ ~derive_out.done
    /\ derive_out' =
         LET soc == generate_soc_id(derive_in)
         IN  [done |-> TRUE,
              soc |-> soc,
              board |-> generate_board_id(derive_in),
              board_of_soc |-> IF soc.ok THEN generate_board_id_from_soc_id(soc.val)
                               ELSE Err]
    /\ UNCHANGED <<store_vars, derive_in, etcd_vars, mgr_vars>>

NextDerive == Derive

SpecDerive == InitDerive /\ [][NextDerive]_vars

---------------------------------------------------------------------------
(* Properties of the store driven directly.                                *)

Occurrences(nodes, name) ==
    Cardinality({i \in 1..Len(nodes) : nodes[i].node_name = name})

SocIdOf(node_info) == generate_soc_id(node_info.ip).val

BoardIdOf(node_info) == generate_board_id(node_info.ip).val

\* No call of the run has panicked: every call so far returned Ok or Err.
NoPanic == last_result # "panic"

\* C1: after successful upserts, every node of the node mapping is a member,
\* exactly once, of exactly one SoC and exactly one board of the store: the
\* ones derived from its current address.
C1_MembershipExactlyOne ==
    NoPanic =>
    \A name \in DOMAIN data_store.nodes :
        LET node == data_store.nodes[name]
        IN  /\ SocIdOf(node) \in DOMAIN data_store.socs
            /\ BoardIdOf(node) \in DOMAIN data_store.boards
            /\ \A s \in DOMAIN data_store.socs :
                 Occurrences(data_store.socs[s].nodes, name) =
                     IF s = SocIdOf(node) THEN 1 ELSE 0
            /\ \A b \in DOMAIN data_store.boards :
                 Occurrences(data_store.boards[b].nodes, name) =
                     IF b = BoardIdOf(node) THEN 1 ELSE 0

\* total is the integer sum of the field over the members: the 64-bit sum,
\* none of whose additions overflowed.
ExactSum(agg, k) ==
    LET s == SumU64(Column(agg.nodes, SummedFields[k][2]))
    IN  ~s.overflow /\ agg[SummedFields[k][1]] = s.val

\* C2: after every successful upsert, each summed total of every SoC and
\* every board equals the sum of the field over its current members.
C2_SumsEqualMemberSums ==
    NoPanic =>
    \A b \in DOMAIN data_store.boards : \A k \in 1..Len(SummedFields) :
        /\ ExactSum(data_store.boards[b], k)
        /\ \A s \in DOMAIN data_store.socs : ExactSum(data_store.socs[s], k)

\* The SoCs of the SoC mapping whose identifier maps to board b.
SocsMappingTo(b) ==
    {s \in DOMAIN data_store.socs :
        generate_board_id(s).ok /\ generate_board_id(s).val = b}

\* C3: after every successful upsert, every board's SoC list holds exactly
\* one entry for each SoC of the SoC mapping that maps to the board, no
\* other entry, and each entry equals the SoC mapping's current aggregate.
C3_BoardSocListCurrent ==
    NoPanic =>
    \A b \in DOMAIN data_store.boards :
        LET listed == data_store.boards[b].socs
        IN  /\ \A s \in SocsMappingTo(b) :
                 Cardinality({i \in 1..Len(listed) : listed[i].soc_id = s}) = 1
            /\ \A i \in 1..Len(listed) :
                 /\ listed[i].soc_id \in SocsMappingTo(b)
                 /\ listed[i] = data_store.socs[listed[i].soc_id]

\* A board other than the one just updated lists two SoCs.
C3_Witness ==
    /\ last_result = "ok"
    /\ \E b \in DOMAIN data_store.boards :
         /\ b # BoardIdOf(last_call[1])
         /\ Len(data_store.boards[b].socs) = 2

\* C5: a call that returns Err leaves the whole store as it was.
C5_ErrLeavesStoreUnchanged ==
    [][last_result' = "err" => data_store' = data_store]_vars

\* A call was rejected on a store that holds nodes.
C5_Witness ==
    /\ last_result = "err"
    /\ ~Ipv4Addr_from_str(last_call[1].ip).ok
    /\ DOMAIN data_store.nodes # {}

---------------------------------------------------------------------------
(* Properties of the identity derivation.                                  *)

\* C4: for every valid address, the board derived from the address equals
\* the board derived from the address's SoC identifier.
C4_BoardOfSocIsBoard ==
    (derive_out.done /\ Ipv4Addr_from_str(derive_in).ok) =>
        /\ derive_out.soc.ok
        /\ derive_out.board.ok
        /\ derive_out.board_of_soc = derive_out.board

\* Both derivations ran on an address whose SoC and board identifiers differ.
C4_Witness ==
    /\ derive_out.done
    /\ derive_in = Ip215
    /\ derive_out.board.ok
    /\ derive_out.soc.val # derive_out.board.val
    /\ derive_out.board_of_soc = derive_out.board

---------------------------------------------------------------------------
(* The manager: run() spawns process_container_requests and                *)
(* process_node_info_requests; senders feed the two channels; a caller     *)
(* sharing the manager takes snapshots.  All of them meet at the one       *)
(* Mutex around the DataStore.                                             *)

\* The values of a HashMap as values() yields them in one iteration order
\* of its keys; the order is the map's own and differs between maps.
MapValues(m, order) == [i \in 1..Len(order) |-> m[order[i]]]

AddOverflows(a, b) == Add64(a, b).overflow

\* The arithmetic of the print functions; each panics, with overflow
\* checks, where an addition overflows or a subtraction underflows.
print_node_info_panics(node_info) ==
    /\ overflow_checks
    /\ \/ AddOverflows(node_info.rx_bytes, node_info.tx_bytes)
       \/ AddOverflows(node_info.read_bytes, node_info.write_bytes)

print_soc_info_panics(soc_info) ==
    /\ overflow_checks
    /\ \/ Lt64(soc_info.total_memory, soc_info.total_used_memory)
       \/ AddOverflows(soc_info.total_rx_bytes, soc_info.total_tx_bytes)
       \/ AddOverflows(soc_info.total_read_bytes, soc_info.total_write_bytes)

print_board_info_panics(board_info) ==
    /\ overflow_checks
    /\ Lt64(board_info.total_memory, board_info.total_used_memory)

print_aggregated_info_panics(ds, ip) ==
    \/ /\ generate_soc_id(ip).ok
       /\ generate_soc_id(ip).val \in DOMAIN ds.socs
       /\ print_soc_info_panics(ds.socs[generate_soc_id(ip).val])
    \/ /\ generate_board_id(ip).ok
       /\ generate_board_id(ip).val \in DOMAIN ds.boards
       /\ print_board_info_panics(ds.boards[generate_board_id(ip).val])

calculate_system_averages_panics(ds, order) ==
    /\ overflow_checks
    /\ DOMAIN ds.nodes # {}
    /\ \/ SumU64(Column(MapValues(ds.nodes, order), "cpu_count")).overflow
       \/ SumU64(Column(MapValues(ds.nodes, order), "gpu_count")).overflow

\* The prints handle_node_info makes after store_node_info returned Ok.
PrintsAfterStorePanic(ds, ip, order) ==
    \/ print_aggregated_info_panics(ds, ip)
    \/ calculate_system_averages_panics(ds, order)

\* A receive that returns the newest message of the channel.
mpsc_recv_newest(stream, recvd) == stream[Len(stream)]

\* rx.recv() on a channel that holds a message: the oldest one.
mpsc_recv(stream, recvd) == stream[recvd + 1]

\* data_store.lock().await returns once the Mutex is free.
NodeCanLockStore == ~store_locked

ReaderCanLockStore == ~store_locked

MetricsNet == [MetricsA EXCEPT !.rx_bytes = MaxU64, !.tx_bytes = U64(1)]

\* The samples senders put on the node channel.
NodeMessages ==
    {NodeInfo("n1", Ip201, MetricsA), NodeInfo("n1", IpBad, MetricsA),
     NodeInfo("n1", Ip201, MetricsWide), NodeInfo("n2", Ip205, MetricsWide),
     NodeInfo("n1", Ip201, MetricsNet)}

\* The inventories senders put on the container channel.
ContainerMessages ==
    {[node_name |-> "n1",
      containers |-> <<[id |-> "c1", names |-> <<"web">>, image |-> "nginx"]>>],
     [node_name |-> "n1", containers |-> <<>>]}

\* The number of samples sent on the node channel.
MaxSent == 2

\* The number of inventories sent on the container channel.
MaxInventories == 2

\* The manager before any task runs on it.
ManagerNew ==
    /\ overflow_checks \in BOOLEAN
    /\ data_store = DataStore_new
    /\ clock = 0
    /\ last_result = "none"
    /\ last_call = <<>>
    /\ derive_in = <<>>
    /\ derive_out = NoDerive
    /\ NoListing
    /\ node_stream = <<>> /\ node_recvd = 0 /\ node_closed = FALSE
    /\ rx_node_locked = FALSE
    /\ cont_stream = <<>> /\ cont_recvd = 0 /\ cont_closed = FALSE
    /\ rx_cont_locked = FALSE
    /\ store_locked = FALSE
    /\ node_msg = [t \in NodeTasks |-> <<>>]
    /\ snapshot = <<>>
    /\ results = <<>>
    /\ msg_locks = [t \in NodeTasks |-> 0]
    /\ msg_calls = [t \in NodeTasks |-> 0]

\* run(self) takes the manager by value and spawns one task for each loop:
\* nothing else can call the manager while it runs.
InitMgr ==
    /\ ManagerNew
    /\ node_pc = [t \in NodeTasks |-> IF t = "t1" THEN "lock_rx" ELSE "idle"]
    /\ cont_pc = "lock_rx"
    /\ reader_pc = "idle"
    /\ run_pc = "joining"

(* Senders. *)

SendNode ==
    /\ ~node_closed
    /\ Len(node_stream) < MaxSent
    /\ \E m \in NodeMessages : node_stream' = Append(node_stream, m)
    /\ UNCHANGED <<store_vars, derive_vars, etcd_vars, node_recvd, node_closed, rx_node_locked,
                   cont_vars, task_vars, reader_vars, store_locked, run_pc, results>>

CloseNode ==
    /\ ~node_closed
    /\ node_closed' = TRUE
    /\ UNCHANGED <<store_vars, derive_vars, etcd_vars, node_stream, node_recvd, rx_node_locked,
                   cont_vars, task_vars, reader_vars, store_locked, run_pc, results>>

\* A sender puts an inventory on the container channel; a node may send
\* any number of them.
SendContainer ==
    /\ ~cont_closed
    /\ Len(cont_stream) < MaxInventories
    /\ \E m \in ContainerMessages : cont_stream' = Append(cont_stream, m)
    /\ UNCHANGED <<store_vars, derive_vars, etcd_vars, node_chan_vars, cont_recvd, cont_closed,
                   rx_cont_locked, cont_pc, task_vars, reader_vars, store_locked,
                   run_pc, results>>

CloseContainer ==
    /\ ~cont_closed
    /\ cont_closed' = TRUE
    /\ UNCHANGED <<store_vars, derive_vars, etcd_vars, node_chan_vars, cont_stream, cont_recvd,
                   rx_cont_locked, cont_pc, task_vars, reader_vars, store_locked,
                   run_pc, results>>

(* process_container_requests and handle_container_list. *)

ContLockRx ==
    /\ cont_pc = "lock_rx"
    /\ ~rx_cont_locked
    /\ rx_cont_locked' = TRUE
    /\ cont_pc' = "recv"
    /\ UNCHANGED <<store_vars, derive_vars, etcd_vars, node_chan_vars, cont_stream, cont_recvd,
                   cont_closed, task_vars, reader_vars, store_locked, run_pc,
                   results>>

\* recv() returns Some: the guard on rx_container is dropped.
ContRecvSome ==
    /\ cont_pc = "recv"
    /\ cont_recvd < Len(cont_stream)
    /\ cont_recvd' = cont_recvd + 1
    /\ rx_cont_locked' = FALSE
    /\ cont_pc' = "handle"
    /\ UNCHANGED <<store_vars, derive_vars, etcd_vars, node_chan_vars, cont_stream, cont_closed,
                   task_vars, reader_vars, store_locked, run_pc, results>>

\* recv() returns None: the channel is closed and empty; the loop breaks.
ContRecvNone ==
    /\ cont_pc = "recv"
    /\ cont_recvd = Len(cont_stream)
    /\ cont_closed
    /\ rx_cont_locked' = FALSE
    /\ cont_pc' = "done"
    /\ UNCHANGED <<store_vars, derive_vars, etcd_vars, node_chan_vars, cont_stream, cont_recvd,
                   cont_closed, task_vars, reader_vars, store_locked, run_pc,
                   results>>

\* A handler that records the sender of the inventory in the node mapping,
\* under the store lock.
handle_container_list_storing ==
    /\ cont_pc = "handle"
    /\ ~store_locked
    /\ data_store' = [data_store EXCEPT
                        !.nodes = MapInsert(@, cont_stream[cont_recvd].node_name,
                                            cont_stream[cont_recvd])]
    /\ cont_pc' = "lock_rx"
    /\ UNCHANGED <<overflow_checks, clock, last_result, last_call, derive_vars, etcd_vars,
                   node_chan_vars, cont_stream, cont_recvd, cont_closed,
                   rx_cont_locked, task_vars, reader_vars, store_locked, run_pc,
                   results>>

\* handle_container_list prints the message and touches nothing else.
handle_container_list ==
    /\ cont_pc = "handle"
    /\ cont_pc' = "lock_rx"
    /\ UNCHANGED <<store_vars, derive_vars, etcd_vars, node_chan_vars, cont_stream, cont_recvd,
                   cont_closed, rx_cont_locked, task_vars, reader_vars,
                   store_locked, run_pc, results>>

(* process_node_info_requests and handle_node_info, run by task t. *)

\* The positions of handle_node_info where its MutexGuard is in scope.
HoldsGuard(t) ==
    node_pc[t] \in {"store", "update_soc", "update_board", "arm"}

NodeLockRx(t) ==
    /\ node_pc[t] = "lock_rx"
    /\ ~rx_node_locked
    /\ rx_node_locked' = TRUE
    /\ node_pc' = [node_pc EXCEPT ![t] = "recv"]
    /\ UNCHANGED <<store_vars, derive_vars, etcd_vars, node_stream, node_recvd, node_closed,
                   cont_vars, node_msg, msg_locks, msg_calls, reader_vars,
                   store_locked, run_pc, results>>

\* recv() returns Some: the guard on rx_node is dropped, and
\* handle_node_info starts with print_node_info, before it locks the store.
\* A panic ends the task.
NodeRecvSome(t) ==
    /\ node_pc[t] = "recv"
    /\ node_recvd < Len(node_stream)
    /\ node_msg' = [node_msg EXCEPT ![t] = <<mpsc_recv(node_stream, node_recvd)>>]
    /\ node_recvd' = node_recvd + 1
    /\ rx_node_locked' = FALSE
    /\ msg_locks' = [msg_locks EXCEPT ![t] = 0]
    /\ msg_calls' = [msg_calls EXCEPT ![t] = 0]
    /\ node_pc' = [node_pc EXCEPT ![t] =
                     IF print_node_info_panics(mpsc_recv(node_stream, node_recvd))
                     THEN "panicked" ELSE "lock_store"]
    /\ UNCHANGED <<store_vars, derive_vars, etcd_vars, node_stream, node_closed, cont_vars,
                   reader_vars, store_locked, run_pc, results>>

\* recv() returns None: the channel is closed and empty; the loop breaks.
NodeRecvNone(t) ==
    /\ node_pc[t] = "recv"
    /\ node_recvd = Len(node_stream)
    /\ node_closed
    /\ rx_node_locked' = FALSE
    /\ node_pc' = [node_pc EXCEPT ![t] = "done"]
    /\ UNCHANGED <<store_vars, derive_vars, etcd_vars, node_stream, node_recvd, node_closed,
                   cont_vars, node_msg, msg_locks, msg_calls, reader_vars,
                   store_locked, run_pc, results>>

NodeLockStore(t) ==
    /\ node_pc[t] = "lock_store"
    /\ NodeCanLockStore
    /\ store_locked' = TRUE
    /\ msg_locks' = [msg_locks EXCEPT ![t] = @ + 1]
    /\ node_pc' = [node_pc EXCEPT ![t] = "store"]
    /\ UNCHANGED <<store_vars, derive_vars, etcd_vars, node_chan_vars, cont_vars, node_msg,
                   msg_calls, reader_vars, run_pc, results>>

\* store_node_info up to its first write: Err, or the node inserted.
NodeStoreBegin(t) ==
    /\ node_pc[t] = "store"
    /\ msg_calls' = [msg_calls EXCEPT ![t] = @ + 1]
    /\ last_call' = node_msg[t]
    /\ IF StoreRejects(node_msg[t][1])
       THEN /\ last_result' = "err"
            /\ results' = Append(results, [node_info |-> node_msg[t][1],
                                           result |-> "err"])
            /\ clock' = clock + 1
            /\ node_pc' = [node_pc EXCEPT ![t] = "arm"]
            /\ UNCHANGED data_store
       ELSE /\ data_store' = InsertNode(data_store, node_msg[t][1])
            /\ node_pc' = [node_pc EXCEPT ![t] = "update_soc"]
            /\ UNCHANGED <<last_result, results, clock>>
    /\ UNCHANGED <<overflow_checks, derive_vars, etcd_vars, node_chan_vars, cont_vars, node_msg,
                   msg_locks, reader_vars, store_locked, run_pc>>

\* A panic unwinds through the MutexGuard, which releases the lock, and
\* ends the task.
NodeUpdateSoc(t) ==
    /\ node_pc[t] = "update_soc"
    /\ LET m == node_msg[t][1]
           r == update_soc_info(data_store, SocIdOf(m), m, clock)
       IN  /\ data_store' = r.val
           /\ IF r.panic
              THEN /\ last_result' = "panic"
                   /\ results' = Append(results, [node_info |-> m,
                                                  result |-> "panic"])
                   /\ clock' = clock + 1
                   /\ store_locked' = FALSE
                   /\ node_pc' = [node_pc EXCEPT ![t] = "panicked"]
              ELSE /\ node_pc' = [node_pc EXCEPT ![t] = "update_board"]
                   /\ UNCHANGED <<last_result, results, clock, store_locked>>
    /\ UNCHANGED <<overflow_checks, last_call, derive_vars, etcd_vars, node_chan_vars,
                   cont_vars, node_msg, msg_locks, msg_calls, reader_vars, run_pc>>

NodeUpdateBoard(t) ==
    /\ node_pc[t] = "update_board"
    /\ \E order \in IterationOrders(DOMAIN data_store.socs) :
         LET m == node_msg[t][1]
             r == update_board_info(data_store, BoardIdOf(m), m, clock, order)
         IN  /\ data_store' = r.val
             /\ last_result' = IF r.panic THEN "panic" ELSE "ok"
             /\ results' = Append(results,
                                  [node_info |-> m,
                                   result |-> IF r.panic THEN "panic" ELSE "ok"])
             /\ store_locked' = ~r.panic
             /\ node_pc' = [node_pc EXCEPT ![t] =
                              IF r.panic THEN "panicked" ELSE "arm"]
    /\ clock' = clock + 1
    /\ UNCHANGED <<overflow_checks, last_call, derive_vars, etcd_vars, node_chan_vars,
                   cont_vars, node_msg, msg_locks, msg_calls, reader_vars, run_pc>>

\* A handler whose Err arm ends the loop.
NodeMatchArm_break(t) ==
    /\ node_pc[t] = "arm"
    /\ store_locked' = FALSE
    /\ node_pc' = [node_pc EXCEPT ![t] =
                     IF StoreRejects(node_msg[t][1]) THEN "done" ELSE "lock_rx"]
    /\ UNCHANGED <<store_vars, derive_vars, etcd_vars, node_chan_vars, cont_vars, node_msg,
                   msg_locks, msg_calls, reader_vars, run_pc, results>>

\* A handler whose guard on the store outlives the block.
NodeMatchArm_hold(t) ==
    /\ node_pc[t] = "arm"
    /\ node_pc' = [node_pc EXCEPT ![t] = "lock_rx"]
    /\ UNCHANGED <<store_vars, derive_vars, etcd_vars, node_chan_vars, cont_vars, node_msg,
                   msg_locks, msg_calls, reader_vars, store_locked, run_pc, results>>

\* The arm of the match on the result, and the end of the block.  The Ok
\* arm prints while the lock is held; the Err arm reports the error.  The
\* guard is dropped at the end of the block, or by the unwinding of a
\* panic, which ends the task.
NodeMatchArm(t) ==
    /\ node_pc[t] = "arm"
    /\ store_locked' = FALSE
    /\ \E order \in IterationOrders(DOMAIN data_store.nodes) :
         node_pc' = [node_pc EXCEPT ![t] =
                       IF /\ ~StoreRejects(node_msg[t][1])
                          /\ PrintsAfterStorePanic(data_store,
                                                   node_msg[t][1].ip, order)
                       THEN "panicked" ELSE "lock_rx"]
    /\ UNCHANGED <<store_vars, derive_vars, etcd_vars, node_chan_vars, cont_vars, node_msg,
                   msg_locks, msg_calls, reader_vars, run_pc, results>>

NodeTask(t) ==
    \/ NodeLockRx(t) \/ NodeRecvSome(t) \/ NodeRecvNone(t)
    \/ NodeLockStore(t) \/ NodeStoreBegin(t) \/ NodeUpdateSoc(t)
    \/ NodeUpdateBoard(t) \/ NodeMatchArm(t)

(* run(). *)

\* try_join! returns when both tasks have finished, or as soon as one of
\* them has panicked.
RunReturn ==
    /\ run_pc = "joining"
    /\ \/ node_pc["t1"] = "done" /\ cont_pc = "done"
       \/ node_pc["t1"] = "panicked"
    /\ run_pc' = "returned"
    /\ UNCHANGED <<store_vars, derive_vars, etcd_vars, node_chan_vars, cont_vars, task_vars,
                   reader_vars, store_locked, results>>

NextMgr ==
    \/ SendNode \/ CloseNode \/ SendContainer \/ CloseContainer
    \/ ContLockRx \/ ContRecvSome \/ ContRecvNone \/ handle_container_list
    \/ NodeTask("t1")
    \/ RunReturn

SpecMgr == InitMgr /\ [][NextMgr]_vars

(* The manager shared by reference: several tasks run                      *)
(* process_node_info_requests on it (rx_node sits in a Mutex for that),    *)
(* and a caller takes snapshots.                                           *)

InitShared ==
    /\ ManagerNew
    /\ node_pc = [t \in NodeTasks |-> "lock_rx"]
    /\ cont_pc = "idle"
    /\ reader_pc = "ready"
    /\ run_pc = "idle"

\* get_data_snapshot locks the store, clones the three mappings and drops
\* the guard.
get_data_snapshot ==
    /\ reader_pc = "ready"
    /\ ReaderCanLockStore
    /\ snapshot' = <<data_store>>
    /\ UNCHANGED <<store_vars, derive_vars, etcd_vars, node_chan_vars, cont_vars, task_vars,
                   reader_pc, store_locked, run_pc, results>>

\* print_all_data locks the store, prints what it observes, then the
\* summary; a panic ends the caller and drops the guard.
print_all_data ==
    /\ reader_pc = "ready"
    /\ ReaderCanLockStore
    /\ snapshot' = <<data_store>>
    /\ \E order \in IterationOrders(DOMAIN data_store.nodes) :
         reader_pc' = IF calculate_system_averages_panics(data_store, order)
                      THEN "panicked" ELSE "ready"
    /\ UNCHANGED <<store_vars, derive_vars, etcd_vars, node_chan_vars, cont_vars, task_vars,
                   store_locked, run_pc, results>>

NextShared ==
    \/ SendNode \/ CloseNode
    \/ \E t \in NodeTasks : NodeTask(t)
    \/ get_data_snapshot \/ print_all_data

SpecShared == InitShared /\ [][NextShared]_vars

---------------------------------------------------------------------------
(* Properties of the manager.                                              *)

\* The store after store_node_info has been applied to samples[1..k], one
\* call after the other, the i-th at time i - 1.  A call that panics ends
\* the sequence and leaves the store as the panic left it.
RECURSIVE ApplyInOrder(_, _)
ApplyInOrder(samples, k) ==
    IF k = 0
    THEN [val |-> DataStore_new, result |-> "none"]
    ELSE LET prev == ApplyInOrder(samples, k - 1)
         IN  IF prev.result = "panic"
             THEN prev
             ELSE store_node_info(
                      prev.val, samples[k], k - 1,
                      CHOOSE o \in IterationOrders(SocKeysAfter(prev.val, samples[k])) :
                          TRUE)

SameBoard(a, b) ==
    /\ [a EXCEPT !.socs = <<>>] = [b EXCEPT !.socs = <<>>]
    /\ Len(a.socs) = Len(b.socs)
    /\ {a.socs[i] : i \in 1..Len(a.socs)} = {b.socs[i] : i \in 1..Len(b.socs)}

\* Equal stores, the order of a board's SoC list (the iteration order of a
\* HashMap) left aside.
SameStore(a, b) ==
    /\ a.nodes = b.nodes
    /\ a.socs = b.socs
    /\ DOMAIN a.boards = DOMAIN b.boards
    /\ \A id \in DOMAIN a.boards : SameBoard(a.boards[id], b.boards[id])

\* The samples store_node_info was called with, in the order of the calls.
Submitted == [i \in 1..Len(results) |-> results[i].node_info]

MutualExclusion ==
    /\ Cardinality({t \in NodeTasks : HoldsGuard(t)}) <= 1
    /\ store_locked <=> \E t \in NodeTasks : HoldsGuard(t)

SnapshotOfCompletedUpserts ==
    snapshot # <<>> =>
        \E k \in 0..Len(results) :
            /\ ApplyInOrder(Submitted, k).result # "panic"
            /\ SameStore(snapshot[1], ApplyInOrder(Submitted, k).val)

\* C6: at most one task is inside the store at a time, and every snapshot
\* read observes the store as a whole number of completed upserts left it.
C6_SnapshotsSeeCompletedUpserts ==
    MutualExclusion /\ SnapshotOfCompletedUpserts

\* Every task is between two samples and every sample sent has been taken.
Quiescent ==
    /\ \A t \in NodeTasks : node_pc[t] \in {"lock_rx", "recv", "done"}
    /\ node_recvd = Len(node_stream)

DistinctNames(samples) ==
    \A i, j \in 1..Len(samples) :
        i # j => samples[i].node_name # samples[j].node_name

\* The calls that returned Ok for a sample of SoC s.
SuccessfulFor(s) ==
    {i \in 1..Len(results) :
        /\ results[i].result = "ok"
        /\ SocIdOf(results[i].node_info) = s}

Soc200 == SocIdOf(NodeInfo("n1", Ip201, MetricsA))

\* C7: once concurrent upserts for distinct node names have all completed,
\* each SoC has as many members as upserts for it succeeded, one per name.
C7_MembersEqualSuccessfulUpserts ==
    (Quiescent /\ DistinctNames(node_stream)) =>
        \A s \in {Soc200} \cup DOMAIN data_store.socs :
            IF SuccessfulFor(s) = {}
            THEN s \notin DOMAIN data_store.socs
            ELSE /\ s \in DOMAIN data_store.socs
                 /\ Len(data_store.socs[s].nodes) = Cardinality(SuccessfulFor(s))
                 /\ \A i \in SuccessfulFor(s) :
                        Occurrences(data_store.socs[s].nodes,
                                    results[i].node_info.node_name) = 1

\* Two tasks each took one of two samples of SoC 10.0.0.200, the one sent
\* second was stored first, and both upserts succeeded.
C7_Witness ==
    /\ Quiescent
    /\ DistinctNames(node_stream)
    /\ Len(node_stream) = 2
    /\ \A t \in NodeTasks : node_msg[t] # <<>>
    /\ Len(results) = 2
    /\ results[1].node_info = node_stream[2]
    /\ Cardinality(SuccessfulFor(Soc200)) = 2
    /\ Len(data_store.socs[Soc200].nodes) = 2

\* Task t is not handling a sample: it is at the head of its loop, or it
\* has ended.
BetweenSamples(t) == node_pc[t] \in {"lock_rx", "recv", "done", "panicked"}

\* C8: for each sample it takes, the node loop locks the store once and
\* calls store_node_info exactly once, and the lock is free again before
\* the next receive.
C8_OneLockedCallPerSample ==
    \A t \in NodeTasks :
        /\ msg_locks[t] <= 1
        /\ msg_calls[t] <= 1
        /\ (node_msg[t] # <<>> /\ BetweenSamples(t)) =>
               /\ msg_locks[t] = 1
               /\ msg_calls[t] = 1
               /\ ~HoldsGuard(t)

NodeLoopEnded == node_pc["t1"] \in {"done", "panicked"}

\* C9: a loop has ended only if its stream is closed and drained, the
\* closing of the other stream does not end it, and run() has returned only
\* if both loops have ended.
C9_LoopsEndWithTheirStreams ==
    /\ NodeLoopEnded => (node_closed /\ node_recvd = Len(node_stream))
    /\ cont_pc = "done" => (cont_closed /\ cont_recvd = Len(cont_stream))
    /\ run_pc = "returned" => (NodeLoopEnded /\ cont_pc = "done")

\* C10: whenever no store_node_info call is in progress, the store is what
\* the calls made so far, applied one after the other to the first samples
\* of the node stream in their arrival order, leave.
C10_AppliedInArrivalOrder ==
    (\A t \in NodeTasks : node_pc[t] \notin {"update_soc", "update_board"}) =>
        /\ clock <= Len(node_stream)
        /\ SameStore(data_store, ApplyInOrder(node_stream, clock).val)

\* Two different samples have been stored, while the inventory loop handled
\* a message of its own.
C10_Witness ==
    /\ \A t \in NodeTasks : ~HoldsGuard(t)
    /\ clock = 2
    /\ node_stream[1].node_name # node_stream[2].node_name
    /\ \A i \in 1..2 : results[i].result = "ok"
    /\ Len(data_store.socs[Soc200].nodes) = 2
    /\ cont_recvd = 1

\* A step of process_container_requests or handle_container_list.
ContainerLoopStep == cont_pc' # cont_pc

\* C11: no step of the inventory loop changes the store or the state of
\* its lock.
C11_InventoryLeavesStoreAlone ==
    [][ContainerLoopStep =>
          (data_store' = data_store /\ store_locked' = store_locked)]_vars

\* An inventory has been handled while the node task held the store lock
\* on a store that is not empty.
C11_Witness ==
    /\ cont_recvd = 1
    /\ cont_pc = "lock_rx"
    /\ store_locked
    /\ DOMAIN data_store.nodes # {}

---------------------------------------------------------------------------
(* Further properties of the store driven directly.                        *)

\* C12: store_node_info returns Err exactly for the records whose address
\* does not parse, and Ok for every other record.
C12_ErrIffAddressUnparseable ==
    last_call # <<>> =>
        /\ last_result = "err" <=> ~Ipv4Addr_from_str(last_call[1].ip).ok
        /\ Ipv4Addr_from_str(last_call[1].ip).ok => last_result = "ok"

UntimedSoc(soc) == [soc EXCEPT !.last_updated = 0]

\* A board without its timestamps and without the order of its SoC list.
UntimedBoard(board) ==
    [board EXCEPT !.last_updated = 0,
                  !.socs = [count |-> Len(board.socs),
                            items |-> {UntimedSoc(board.socs[i]) :
                                          i \in 1..Len(board.socs)}]]

\* The store without the last-updated timestamps.
UntimedStore(ds) ==
    [nodes |-> ds.nodes,
     socs |-> [id \in DOMAIN ds.socs |-> UntimedSoc(ds.socs[id])],
     boards |-> [id \in DOMAIN ds.boards |-> UntimedBoard(ds.boards[id])]]

\* C13: after a call that returned, a second call with the same record
\* returns the same result and changes nothing but last-updated timestamps:
\* totals, member lists, SoC lists and the three key sets stay as they are.
C13_SecondUpsertChangesNothing ==
    (last_call # <<>> /\ last_result \in {"ok", "err"}) =>
        \A order \in IterationOrders(DOMAIN data_store.socs) :
            LET again == store_node_info(data_store, last_call[1], clock, order)
            IN  /\ again.result = last_result
                /\ UntimedStore(again.val) = UntimedStore(data_store)

\* A record was upserted into a board that holds two SoCs and two members.
C13_Witness ==
    /\ last_call # <<>>
    /\ last_result = "ok"
    /\ BoardIdOf(last_call[1]) \in DOMAIN data_store.boards
    /\ Len(data_store.boards[BoardIdOf(last_call[1])].socs) = 2
    /\ Len(data_store.boards[BoardIdOf(last_call[1])].nodes) = 2

---------------------------------------------------------------------------
(* The node loop on its own: one task runs process_node_info_requests.     *)

InitNode ==
    /\ ManagerNew
    /\ node_pc = [t \in NodeTasks |-> IF t = "t1" THEN "lock_rx" ELSE "idle"]
    /\ cont_pc = "idle"
    /\ reader_pc = "idle"
    /\ run_pc = "idle"

NextNode == SendNode \/ CloseNode \/ NodeTask("t1")

SpecNode == InitNode /\ [][NextNode]_vars

---------------------------------------------------------------------------
(* Further properties of the manager.                                      *)

\* The calls that returned Ok for a sample of the node called name.
SuccessfulCallsFor(name) ==
    {i \in 1..Len(results) :
        /\ results[i].result = "ok"
        /\ results[i].node_info.node_name = name}

\* The latest of a non-empty set of calls.
Latest(calls) == CHOOSE i \in calls : \A j \in calls : j <= i

\* C14: between calls the node mapping has one entry for each name that was
\* successfully upserted and for no other name, and get_node_info returns
\* the sample of the latest successful upsert for the name.
C14_NodeMappingHoldsLatestSuccess ==
    (\A t \in NodeTasks : node_pc[t] \notin {"update_soc", "update_board"}) =>
        \A name \in {"n1", "n2"} \cup DOMAIN data_store.nodes :
            IF SuccessfulCallsFor(name) = {}
            THEN get_node_info(data_store, name) = <<>>
            ELSE get_node_info(data_store, name) =
                     <<results[Latest(SuccessfulCallsFor(name))].node_info>>

\* The calls that have returned Ok.
SuccessfulCalls == {i \in 1..Len(results) : results[i].result = "ok"}

MemberNames(agg) == {agg.nodes[i].node_name : i \in 1..Len(agg.nodes)}

\* C15: between calls each mapping holds exactly the keys that successful
\* upserts have derived so far (none before the first such upsert, none
\* lost after it), and every aggregate still lists every node that was
\* successfully upserted into it.
C15_CreatedLazilyNeverRemoved ==
    (\A t \in NodeTasks : node_pc[t] \notin {"update_soc", "update_board"}) =>
        /\ DOMAIN data_store.nodes =
               {results[i].node_info.node_name : i \in SuccessfulCalls}
        /\ DOMAIN data_store.socs =
               {SocIdOf(results[i].node_info) : i \in SuccessfulCalls}
        /\ DOMAIN data_store.boards =
               {BoardIdOf(results[i].node_info) : i \in SuccessfulCalls}
        /\ \A i \in SuccessfulCalls :
               /\ results[i].node_info.node_name \in
                      MemberNames(data_store.socs[SocIdOf(results[i].node_info)])
               /\ results[i].node_info.node_name \in
                      MemberNames(data_store.boards[BoardIdOf(results[i].node_info)])

IsAccepted(node_info) == ~StoreRejects(node_info)

\* The samples store_node_info has been called with, the rejected ones
\* left out.
AcceptedSoFar == SelectSeq(SubSeq(node_stream, 1, clock), IsAccepted)

\* C16: a rejected sample is reported, the lock is released and the loop
\* goes on (it ends, short of a panic, only at a closed and drained stream);
\* the store is, timestamps aside, what the samples handled so far leave
\* when the rejected ones are taken out of the stream.
C16_RejectedSampleLeavesNoTrace ==
    /\ (node_msg["t1"] # <<>> /\ BetweenSamples("t1")
            /\ StoreRejects(node_msg["t1"][1])) =>
           /\ node_pc["t1"] # "panicked"
           /\ ~store_locked
           /\ results[Len(results)] =
                  [node_info |-> node_msg["t1"][1], result |-> "err"]
    /\ node_pc["t1"] = "done" => (node_closed /\ node_recvd = Len(node_stream))
    /\ (\A t \in NodeTasks : node_pc[t] \notin {"update_soc", "update_board"}) =>
           /\ clock <= Len(node_stream)
           /\ UntimedStore(data_store) =
                  UntimedStore(ApplyInOrder(AcceptedSoFar, Len(AcceptedSoFar)).val)

\* A sample was rejected and the next one was stored.
C16_Witness ==
    /\ Len(results) = 2
    /\ results[1].result = "err"
    /\ results[2].result = "ok"
    /\ node_pc["t1"] = "recv"
    /\ ~store_locked
    /\ DOMAIN data_store.nodes # {}
---------------------------------------------------------------------------
(* Further properties of the identity derivation.                          *)

Octets(ip) == Ipv4Addr_from_str(ip).octets

ValidInputs == {ip \in DeriveInputs : Ipv4Addr_from_str(ip).ok}

\* C17: two valid addresses get the same SoC identifier exactly when they
\* agree on the first three octets and on the last octet divided by 10, and
\* the same Board identifier exactly when they agree on the first three
\* octets and on the last octet divided by 100; .201 and .202 share a SoC
\* identifier, .201 and .211 have different SoC identifiers and one Board
\* identifier.
C17_GroupingBoundaries ==
    (derive_out.done /\ derive_out.soc.ok) =>
        LET a == Octets(derive_in)
        IN  /\ \A b \in ValidInputs :
                   LET o == Octets(b)
                       prefix == \A i \in 1..3 : a[i] = o[i]
                   IN  /\ (generate_soc_id(b).val = derive_out.soc.val)
                              <=> (prefix /\ a[4] \div 10 = o[4] \div 10)
                       /\ (generate_board_id(b).val = derive_out.board.val)
                              <=> (prefix /\ a[4] \div 100 = o[4] \div 100)
            /\ derive_in = Ip201 =>
                   /\ generate_soc_id(Ip202).val = derive_out.soc.val
                   /\ generate_soc_id(Ip211).val # derive_out.soc.val
                   /\ generate_board_id(Ip211).val = derive_out.board.val

C17_Witness ==
    /\ derive_out.done
    /\ derive_in = Ip201
    /\ derive_out.soc.ok
    /\ derive_out.board.ok
    /\ generate_soc_id(Ip202) = derive_out.soc
    /\ generate_soc_id(Ip211) # derive_out.soc
    /\ generate_board_id(Ip211) = derive_out.board

\* C18 as stated: the derivation applied to a.b.c.201 and to a.b.c.322
\* yields two Board identifiers, and they are different.
C18_TwoBoardIdentifiers ==
    (derive_out.done /\ derive_in = Ip322) =>
        /\ generate_board_id(Ip201).ok
        /\ derive_out.board.ok
        /\ derive_out.board.val # generate_board_id(Ip201).val

\* C18: 322 is no octet, so the derivation applied to a.b.c.322 fails for
\* both identifiers and yields no Board identifier; applied to a.b.c.201 and
\* to a.b.c.122, a valid address of another hundreds band, it yields two
\* Board identifiers, and they are different.
C18_OutOfRangeRejected ==
    derive_out.done =>
        /\ derive_in = Ip322 =>
               /\ ~derive_out.soc.ok
               /\ ~derive_out.board.ok
               /\ generate_board_id(Ip201).ok
        /\ derive_in = Ip122 =>
               /\ derive_out.board.ok
               /\ generate_board_id(Ip201).ok
               /\ derive_out.board.val # generate_board_id(Ip201).val

C18_Witness ==
    /\ derive_out.done
    /\ derive_in = Ip322
    /\ derive_out.board = Err
    /\ generate_board_id(Ip201) = Ok(FormatDotted(<<10, 0, 0, 200>>))

---------------------------------------------------------------------------
(* The averaged fields of the aggregates.                                  *)

\* q is the arithmetic mean of xs: a fraction with q * Len(xs) = sum of xs.
IsMeanOf(q, xs) == q[2] > 0 /\ q[1] * Len(xs) = SumNat(xs) * q[2]

\* Both averaged fields of an aggregate are the means over its member list,
\* and zero for an empty member list.
AveragesCurrent(agg) ==
    IF agg.nodes = <<>>
    THEN agg.total_cpu_usage[1] = 0 /\ agg.total_mem_usage[1] = 0
    ELSE /\ IsMeanOf(agg.total_cpu_usage, Column(agg.nodes, "cpu_usage"))
         /\ IsMeanOf(agg.total_mem_usage, Column(agg.nodes, "mem_usage"))

\* C19: after every successful store_node_info call, the average CPU usage
\* and the average memory usage of every SoC, of every board and of every
\* SoC listed by a board are the arithmetic means of the values over the
\* aggregate's current member list, and zero for an empty member list.
C19_AveragesAreMemberMeans ==
    last_result = "ok" =>
        /\ \A s \in DOMAIN data_store.socs : AveragesCurrent(data_store.socs[s])
        /\ \A b \in DOMAIN data_store.boards :
               /\ AveragesCurrent(data_store.boards[b])
               /\ \A i \in 1..Len(data_store.boards[b].socs) :
                      AveragesCurrent(data_store.boards[b].socs[i])

\* A SoC of two members with different usages after a successful call.
C19_Witness ==
    /\ last_result = "ok"
    /\ \E s \in DOMAIN data_store.socs :
           LET soc == data_store.socs[s]
           IN  /\ Len(soc.nodes) = 2
               /\ soc.nodes[1].cpu_usage # soc.nodes[2].cpu_usage
               /\ soc.total_cpu_usage = <<60, 1>>
               /\ soc.total_mem_usage = <<50, 1>>

---------------------------------------------------------------------------
(* One bulk listing over what a prefix holds.                              *)

InitList ==
    /\ NoManager
    /\ overflow_checks = FALSE
    /\ data_store = DataStore_new
    /\ clock = 0
    /\ last_result = "none"
    /\ last_call = <<>>
    /\ derive_in = <<>>
    /\ derive_out = NoDerive
    /\ \E prefix \in Listings : \E prefix_result \in PrefixResults(prefix) :
           list_in = [prefix |-> prefix, prefix_result |-> prefix_result]
    /\ list_out = <<>>

GetAllNodes ==
    /\ list_out = <<>>
    /\ list_in.prefix = "monitoring/nodes/"
    /\ list_out' = <<get_all_nodes(list_in.prefix_result)>>
    /\ UNCHANGED <<store_vars, derive_vars, list_in, mgr_vars>>

GetAllSocs ==
    /\ list_out = <<>>
    /\ list_in.prefix = "monitoring/socs/"
    /\ list_out' = <<get_all_socs(list_in.prefix_result)>>
    /\ UNCHANGED <<store_vars, derive_vars, list_in, mgr_vars>>

GetAllBoards ==
    /\ list_out = <<>>
    /\ list_in.prefix = "monitoring/boards/"
    /\ list_out' = <<get_all_boards(list_in.prefix_result)>>
    /\ UNCHANGED <<store_vars, derive_vars, list_in, mgr_vars>>

NextList == GetAllNodes \/ GetAllSocs \/ GetAllBoards

SpecList == InitList /\ [][NextList]_vars

\* The type a listing deserializes its values into.
ItemType(prefix) ==
    CASE prefix = "monitoring/nodes/" -> "SerializableNodeInfo"
      [] prefix = "monitoring/socs/" -> "SocInfo"
      [] prefix = "monitoring/boards/" -> "BoardInfo"

\* The identifying field of a listed item.
ItemId(prefix, item) ==
    CASE prefix = "monitoring/nodes/" -> item.node_name
      [] prefix = "monitoring/socs/" -> item.soc_id
      [] prefix = "monitoring/boards/" -> item.board_id

\* C20: a listing whose prefix query returned key-value pairs succeeds,
\* whatever the values are, and returns one item for each value that
\* deserializes, in the order of the pairs: the j-th item returned is the
\* j-th deserializable value, so a malformed value is skipped and hides no
\* later value.
C20_ListingSkipsMalformed ==
    (list_out # <<>> /\ list_in.prefix_result.ok) =>
        LET kv_pairs == list_in.prefix_result.kv_pairs
            ty == ItemType(list_in.prefix)
            Readable(i) == serde_json_from_str(ty, kv_pairs[i].value).ok
            Before(i) == Cardinality({k \in 1..(i - 1) : Readable(k)})
            items == list_out[1].val
        IN  /\ list_out[1].ok
            /\ Len(items) = Cardinality({i \in 1..Len(kv_pairs) : Readable(i)})
            /\ \A i \in 1..Len(kv_pairs) :
                   Readable(i) =>
                       LET read == serde_json_from_str(ty, kv_pairs[i].value).val
                           item == items[Before(i) + 1]
                       IN  /\ \A f \in DOMAIN item : item[f] = read[f]
                           /\ DOMAIN item = DOMAIN read

\* A listing returned the well-formed items around a malformed one.
C20_Witness ==
    /\ list_out # <<>>
    /\ list_in.prefix_result.ok
    /\ list_out[1].ok
    /\ LET kv_pairs == list_in.prefix_result.kv_pairs
           ty == ItemType(list_in.prefix)
       IN  /\ Len(kv_pairs) = 3
           /\ serde_json_from_str(ty, kv_pairs[1].value).ok
           /\ ~serde_json_from_str(ty, kv_pairs[2].value).ok
           /\ kv_pairs[2].value.syntax_ok
           /\ serde_json_from_str(ty, kv_pairs[3].value).ok
           /\ Len(list_out[1].val) = 2
           /\ ItemId(list_in.prefix, list_out[1].val[1])
                  # ItemId(list_in.prefix, list_out[1].val[2])

---------------------------------------------------------------------------
(* Three nodes of one board, upserted in any order with any of three       *)
(* samples each.                                                           *)

ScenarioAddress(name) ==
    CASE name = "n1" -> Ip201
      [] name = "n2" -> Ip205
      [] name = "n3" -> Ip215

ScenarioInputs ==
    {NodeInfo(name, ScenarioAddress(name), m) :
        name \in {"n1", "n2", "n3"}, m \in {MetricsA, MetricsB, MetricsC}}

InitScenario ==
    /\ NoManager
    /\ overflow_checks \in BOOLEAN
    /\ data_store = DataStore_new
    /\ clock = 0
    /\ last_result = "none"
    /\ last_call = <<>>
    /\ derive_in = <<>>
    /\ derive_out = NoDerive
    /\ NoListing

\* One whole store_node_info call, recorded with its result.
ScenarioUpsert ==
    /\ clock < MaxCalls
    /\ last_result # "panic"
    /\ \E node_info \in ScenarioInputs :
         \E order \in IterationOrders(SocKeysAfter(data_store, node_info)) :
            LET r == store_node_info(data_store, node_info, clock, order)
            IN  /\ data_store' = r.val
                /\ last_result' = r.result
                /\ last_call' = <<node_info>>
                /\ results' = Append(results, [node_info |-> node_info,
                                               result |-> r.result])
    /\ clock' = clock + 1
    /\ UNCHANGED <<overflow_checks, derive_vars, etcd_vars, node_chan_vars,
                   cont_vars, task_vars, reader_vars, store_locked, run_pc>>

NextScenario == ScenarioUpsert

SpecScenario == InitScenario /\ [][NextScenario]_vars

Soc200Id == FormatDotted(<<10, 0, 0, 200>>)
Soc210Id == FormatDotted(<<10, 0, 0, 210>>)

\* The samples of the worked scenario, in its order.
WorkedCalls ==
    << NodeInfo("n1", Ip201, MetricsA), NodeInfo("n2", Ip205, MetricsB),
       NodeInfo("n3", Ip215, MetricsC) >>

\* The first k calls made are the first k of the worked scenario.
WorkedSoFar(k) ==
    /\ Len(results) = k
    /\ \A i \in 1..k : results[i].node_info = WorkedCalls[i]

\* C21: on an empty store, n1 at 10.0.0.201 (50%, 40%) and n2 at 10.0.0.205
\* (70%, 60%) give the one SoC 10.0.0.200 with 2 members and averages 60%
\* and 50%; n3 at 10.0.0.215 (10%, 10%) then adds SoC 10.0.0.210 with 1
\* member, and board 10.0.0.200 lists both SoCs and 3 members with averages
\* 130/3 and 110/3.
C21_WorkedScenario ==
    /\ WorkedSoFar(2) =>
           /\ last_result = "ok"
           /\ DOMAIN data_store.socs = {Soc200Id}
           /\ Len(data_store.socs[Soc200Id].nodes) = 2
           /\ data_store.socs[Soc200Id].total_cpu_usage = <<60, 1>>
           /\ data_store.socs[Soc200Id].total_mem_usage = <<50, 1>>
    /\ WorkedSoFar(3) =>
           /\ last_result = "ok"
           /\ DOMAIN data_store.socs = {Soc200Id, Soc210Id}
           /\ Len(data_store.socs[Soc200Id].nodes) = 2
           /\ Len(data_store.socs[Soc210Id].nodes) = 1
           /\ DOMAIN data_store.boards = {Soc200Id}
           /\ LET board == data_store.boards[Soc200Id]
              IN  /\ Len(board.socs) = 2
                  /\ {board.socs[i].soc_id : i \in 1..2} = {Soc200Id, Soc210Id}
                  /\ Len(board.nodes) = 3
                  /\ {board.nodes[i].node_name : i \in 1..3} = {"n1", "n2", "n3"}
                  /\ board.total_cpu_usage = <<130, 3>>
                  /\ board.total_mem_usage = <<110, 3>>

C21_Witness ==
    /\ WorkedSoFar(3)
    /\ last_result = "ok"
    /\ Len(data_store.boards[Soc200Id].nodes) = 3
    /\ Len(data_store.boards[Soc200Id].socs) = 2

---------------------------------------------------------------------------
(* The node loop under a scheduler that runs every task that can take a   *)
(* step.  The senders are the environment and owe nothing.                 *)

\* Where process_node_info_requests can stand.
NodePcs ==
    {"idle", "lock_rx", "recv", "lock_store", "store", "update_soc",
     "update_board", "arm", "done", "panicked"}

\* Task t can take a step: it is not waiting for a lock that is held or for
\* a message that has not come, and has neither finished nor panicked.
NodeTaskCanStep(t) ==
    \/ node_pc[t] = "lock_rx" /\ ~rx_node_locked
    \/ node_pc[t] = "recv" /\ (node_recvd < Len(node_stream) \/ node_closed)
    \/ node_pc[t] = "lock_store" /\ NodeCanLockStore
    \/ HoldsGuard(t)

\* A step of task t, told by its position alone: every step of NodeTask(t)
\* moves node_pc[t], and nothing else does.
NodeTaskStep(t) ==
    /\ NodeTaskCanStep(t)
    /\ node_pc' \in [NodeTasks -> NodePcs]
    /\ node_pc'[t] # node_pc[t]

FairSpecNode == SpecNode /\ WF_node_pc(NodeTaskStep("t1"))

\* The i-th sample of the node stream has been applied or rejected.
Processed(i) ==
    /\ Len(results) >= i
    /\ results[i].result \in {"ok", "err"}

\* C22: under fair scheduling every sample queued on the node stream is
\* eventually applied or rejected, and a handler that holds the store lock
\* eventually finishes, with the lock released and the loop back at its
\* receive.
C22_EverySampleProcessed ==
    /\ \A i \in 1..MaxSent : (Len(node_stream) >= i) ~> Processed(i)
    /\ HoldsGuard("t1") ~> (~store_locked /\ node_pc["t1"] = "lock_rx")

---------------------------------------------------------------------------
(* Where the loops of run() wait.                                          *)

\* The container loop can take a step.
ContTaskCanStep ==
    \/ cont_pc = "lock_rx" /\ ~rx_cont_locked
    \/ cont_pc = "recv" /\ (cont_recvd < Len(cont_stream) \/ cont_closed)
    \/ cont_pc = "handle"

\* A loop is suspended: it has not ended and cannot take a step.
NodeLoopSuspended == node_pc["t1"] \notin {"done", "panicked"} /\ ~NodeTaskCanStep("t1")

ContLoopSuspended == cont_pc # "done" /\ ~ContTaskCanStep

\* C23: a loop of run() is suspended only at the receive on its own stream
\* or at the acquisition of the store lock; a loop that is at its receive,
\* or on its way to it, holds no store lock, so whenever no handler is at
\* work the store lock is free for the other loop and for a snapshot reader.
C23_SuspendedOnlyAtReceiveOrStoreLock ==
    /\ NodeLoopSuspended => node_pc["t1"] \in {"recv", "lock_store"}
    /\ ContLoopSuspended => cont_pc = "recv"
    /\ node_pc["t1"] \in {"lock_rx", "recv"} =>
           /\ ~store_locked
           /\ NodeCanLockStore
           /\ ReaderCanLockStore
    /\ node_pc["t1"] = "recv" => rx_node_locked
    /\ cont_pc = "recv" => rx_cont_locked

\* Both loops wait at their receives on idle streams, after a sample was
\* applied, and the store lock is free.
C23_Witness ==
    /\ NodeLoopSuspended
    /\ ContLoopSuspended
    /\ node_pc["t1"] = "recv"
    /\ cont_pc = "recv"
    /\ node_recvd >= 1
    /\ DOMAIN data_store.nodes # {}
    /\ ReaderCanLockStore

---------------------------------------------------------------------------
(* The width of the summed totals.                                         *)

\* C24: for member values anywhere in the u64 range no upsert aborts, and
\* every summed total of every SoC and every board is the true integer sum
\* of the field over the members, none of whose additions wrapped.
C24_SumsNeverWrapOrAbort ==
    /\ last_result # "panic"
    /\ \A k \in 1..Len(SummedFields) :
           /\ \A s \in DOMAIN data_store.socs : ExactSum(data_store.socs[s], k)
           /\ \A b \in DOMAIN data_store.boards : ExactSum(data_store.boards[b], k)

---------------------------------------------------------------------------
(* The arithmetic of the handler.                                          *)

\* C25: for every sample with a parseable address, whatever its u64 fields,
\* handle_node_info does not abort on an overflow or an underflow: the task
\* that took the sample is never ended by a panic, and the store lock is
\* free whenever the task is not inside the handler's block.
C25_HandlerNeverAborts ==
    \A t \in NodeTasks :
        (node_msg[t] # <<>> /\ ~StoreRejects(node_msg[t][1])) =>
            /\ node_pc[t] # "panicked"
            /\ ~HoldsGuard(t) => ~store_locked

---------------------------------------------------------------------------
(* Timestamps.  The clock reads the number of calls begun before.          *)

\* The reading of the clock when the most recent call began.
StartOfLastCall == clock - 1

\* C26: a successful store_node_info call for a record sets last_updated of
\* the record's SoC and of its board to a time not earlier than the start
\* of the call, whether it created or updated them, and the board's SoC
\* list holds a copy of that SoC with the timestamp of the SoC mapping's
\* entry.
C26_TimestampsSetByEveryUpsert ==
    last_result = "ok" =>
        LET r == last_call[1]
            soc == data_store.socs[SocIdOf(r)]
            board == data_store.boards[BoardIdOf(r)]
        IN  /\ SocIdOf(r) \in DOMAIN data_store.socs
            /\ BoardIdOf(r) \in DOMAIN data_store.boards
            /\ soc.last_updated >= StartOfLastCall
            /\ board.last_updated >= StartOfLastCall
            /\ \E i \in 1..Len(board.socs) : board.socs[i].soc_id = SocIdOf(r)
            /\ \A i \in 1..Len(board.socs) :
                   board.socs[i].soc_id = SocIdOf(r) =>
                       board.socs[i].last_updated = soc.last_updated

\* The third call updated a SoC and a board that the first call created.
C26_Witness ==
    /\ last_result = "ok"
    /\ clock = 3
    /\ LET r == last_call[1]
       IN  /\ SocIdOf(r) \in DOMAIN data_store.socs
           /\ Len(data_store.socs[SocIdOf(r)].nodes) = 2
           /\ data_store.socs[SocIdOf(r)].last_updated = 2
           /\ data_store.boards[BoardIdOf(r)].last_updated = 2
           /\ \E s \in DOMAIN data_store.socs : data_store.socs[s].last_updated = 0

---------------------------------------------------------------------------
(* What a call leaves alone.                                               *)

\* Map after is map before, but for the entry of one key.
SameButFor(before, after, key) ==
    /\ DOMAIN after = DOMAIN before \cup (DOMAIN after \cap {key})
    /\ DOMAIN before \subseteq DOMAIN after
    /\ \A k \in DOMAIN before \ {key} : after[k] = before[k]

\* C27: a successful store_node_info call for a record changes nothing but
\* the node mapping's entry of the record's name, the record's SoC and the
\* record's board: every other node, SoC and board is the same record
\* after the call, with its members, totals, SoC list and timestamp.
C27_OtherEntriesUnchanged ==
    [][(clock' = clock + 1 /\ last_result' = "ok") =>
          LET r == last_call'[1]
          IN  /\ SameButFor(data_store.nodes, data_store'.nodes, r.node_name)
              /\ SameButFor(data_store.socs, data_store'.socs, SocIdOf(r))
              /\ SameButFor(data_store.boards, data_store'.boards, BoardIdOf(r))]_vars

\* A successful call was made on a store that holds another node, another
\* SoC and another board, all older than the call.
C27_Witness ==
    /\ last_result = "ok"
    /\ LET r == last_call[1]
       IN  /\ \E n \in DOMAIN data_store.nodes : n # r.node_name
           /\ \E s \in DOMAIN data_store.socs :
                  s # SocIdOf(r) /\ data_store.socs[s].last_updated < StartOfLastCall
           /\ \E b \in DOMAIN data_store.boards :
                  b # BoardIdOf(r) /\ data_store.boards[b].last_updated < StartOfLastCall

---------------------------------------------------------------------------
(* The node mapping against the aggregates.                                *)

\* The aggregate has a member of the node's name, and every member of that
\* name is the node's record.
HoldsRecord(agg, node) ==
    /\ \E i \in 1..Len(agg.nodes) : agg.nodes[i].node_name = node.node_name
    /\ \A i \in 1..Len(agg.nodes) :
           agg.nodes[i].node_name = node.node_name =>
               /\ DOMAIN agg.nodes[i] = DOMAIN node
               /\ \A f \in DOMAIN node : agg.nodes[i][f] = node[f]

\* C28: after successful upserts, for every node of the node mapping the
\* SoC and the board derived from the node's address exist, and each has a
\* member of the node's name that equals the node mapping's record field
\* for field.
C28_AggregatesHoldCurrentRecord ==
    NoPanic =>
        \A name \in DOMAIN data_store.nodes :
            LET node == data_store.nodes[name]
            IN  /\ SocIdOf(node) \in DOMAIN data_store.socs
                /\ BoardIdOf(node) \in DOMAIN data_store.boards
                /\ HoldsRecord(data_store.socs[SocIdOf(node)], node)
                /\ HoldsRecord(data_store.boards[BoardIdOf(node)], node)

\* A node was upserted again with other values under another address of
\* the same board, next to a second node.
C28_Witness ==
    /\ NoPanic
    /\ DOMAIN data_store.nodes = {"n1", "n2"}
    /\ data_store.nodes["n1"].ip = Ip215
    /\ Soc200 \in DOMAIN data_store.socs
    /\ \E i \in 1..Len(data_store.socs[Soc200].nodes) :
           data_store.socs[Soc200].nodes[i].node_name = "n1"
    /\ HoldsRecord(data_store.boards[Soc200], data_store.nodes["n1"])
    /\ HoldsRecord(data_store.boards[BoardIdOf(data_store.nodes["n2"])],
                   data_store.nodes["n2"])

---------------------------------------------------------------------------
(* A board against the SoCs it lists.                                      *)

\* The board's member count, summed totals and member names are those of
\* the SoCs of its list taken together.
BoardIsSumOfItsSocs(board) ==
    LET listed == board.socs
    IN  /\ Len(board.nodes) = SumNat([i \in 1..Len(listed) |-> Len(listed[i].nodes)])
        /\ \A k \in 1..Len(SummedFields) :
               LET s == SumU64(Column(listed, SummedFields[k][1]))
               IN  ~s.overflow /\ board[SummedFields[k][1]] = s.val
        /\ MemberNames(board) = UNION {MemberNames(listed[i]) : i \in 1..Len(listed)}

\* C29: after successful upserts, re-upserts of a name under another
\* address of the same board included, every board's member count and
\* summed totals are the sums of the member counts and totals of the SoCs
\* of its SoC list, and its member names are the union of theirs.
C29_BoardIsSumOfItsSocs ==
    NoPanic =>
        \A b \in DOMAIN data_store.boards :
            BoardIsSumOfItsSocs(data_store.boards[b])

---------------------------------------------------------------------------
(* Two records with distinct node names applied in either order.           *)

\* What is compared of an aggregate: its members as a set and its summed
\* totals; the order of the member list and the timestamp are left out.
MembersAndSums(agg) ==
    [members |-> {agg.nodes[i] : i \in 1..Len(agg.nodes)},
     sums |-> [k \in 1..Len(SummedFields) |-> agg[SummedFields[k][1]]]]

\* What is compared of a store: the three key sets, every aggregate's
\* members and sums, and every board's SoC list as a set.
OrderFreeView(ds) ==
    [node_keys |-> DOMAIN ds.nodes,
     socs |-> [id \in DOMAIN ds.socs |-> MembersAndSums(ds.socs[id])],
     boards |-> [id \in DOMAIN ds.boards |->
                    [own |-> MembersAndSums(ds.boards[id]),
                     socs |-> {[soc_id |-> ds.boards[id].socs[i].soc_id,
                                view |-> MembersAndSums(ds.boards[id].socs[i])] :
                                  i \in 1..Len(ds.boards[id].socs)}]]]

\* One iteration order of the SoC map; the view above does not depend on
\* which one is taken.
SomeOrder(ds, node_info) ==
    CHOOSE order \in IterationOrders(SocKeysAfter(ds, node_info)) : TRUE

\* store_node_info(first) then store_node_info(second) on the same store:
\* whether both calls returned, and the store they leave.
AppliedInOrder(ds, first, second) ==
    LET r1 == store_node_info(ds, first, clock, SomeOrder(ds, first))
        r2 == store_node_info(r1.val, second, clock + 1,
                              SomeOrder(r1.val, second))
    IN  IF r1.result = "panic"
        THEN [returned |-> FALSE, view |-> OrderFreeView(r1.val)]
        ELSE [returned |-> r2.result # "panic", view |-> OrderFreeView(r2.val)]

DistinctNamePairs ==
    {pair \in StoreInputs \X StoreInputs : pair[1].node_name # pair[2].node_name}

\* C30: on every store reached by calls that returned, two records with
\* distinct node names applied in either order both return and leave the
\* same key sets, member sets, Board SoC sets and summed totals.
C30_DistinctNamesCommute ==
    NoPanic =>
        \A pair \in DistinctNamePairs :
            LET ab == AppliedInOrder(data_store, pair[1], pair[2])
                ba == AppliedInOrder(data_store, pair[2], pair[1])
            IN  ab.returned /\ ba.returned /\ ab.view = ba.view

---------------------------------------------------------------------------
(* Derived identifiers fed back into the derivation.                       *)

\* An identifier that parses as an address and that rule maps to itself.
IsFixedPointOf(rule_soc, id) ==
    /\ Ipv4Addr_from_str(id).ok
    /\ IF rule_soc THEN generate_soc_id(id) = Ok(id)
                   ELSE generate_board_id(id) = Ok(id)

\* C31: every SoC identifier and every Board identifier the derivation
\* returns parses as an IPv4 address and is mapped to itself by its own
\* rule, and generate_board_id_from_soc_id of a returned SoC identifier
\* is Ok, so the filter of update_board_socs never takes its else branch
\* for a SoC identifier the derivation produced.
C31_IdentifiersAreFixedPoints ==
    derive_out.done =>
        /\ derive_out.soc.ok =>
               /\ IsFixedPointOf(TRUE, derive_out.soc.val)
               /\ derive_out.board_of_soc.ok
               /\ generate_board_id_from_soc_id(derive_out.soc.val).ok
        /\ derive_out.board.ok => IsFixedPointOf(FALSE, derive_out.board.val)

\* An address whose SoC and Board identifiers differ from it and from each
\* other has been derived.
C31_Witness ==
    /\ derive_out.done
    /\ derive_out.soc.ok
    /\ derive_out.board.ok
    /\ derive_out.soc.val # derive_in
    /\ derive_out.board.val # derive_out.soc.val
    /\ derive_out.board_of_soc = derive_out.board

====
